---- MODULE Spec2Model ----
(***************************************************************************)
(* Model of the Voluum synchronisation engine:                             *)
(*   - the auth token cache of VoluumLiveCollector / VoluumClient,         *)
(*   - the VoluumLiveCollector cycle (run_full_sync, sync_live_visits,     *)
(*     sync_live_clicks, sync_conversions),                                *)
(*   - the DataCollector syncs (sync_visits, sync_conversions), its cursor *)
(*     (sync_state) and run_backfill of sync_worker.                       *)
(* Time is counted in half hours (TicksPerHour ticks to the hour).         *)
(***************************************************************************)
EXTENDS Integers, Sequences, FiniteSets, TLC

---------------------------------------------------------------------------
(* Bounds of the model *)
MaxNow == 8             \* the clock runs from 0 to MaxNow
MaxTokens == 2          \* distinct token strings the identity endpoint issues
MaxExchanges == 3       \* credential exchanges of one object in SpecAuth
MaxCampaigns == 2       \* campaigns in a campaign list
MaxKeys == 2            \* distinct click ids upstream
MaxRows == 3            \* rows of a report handed to the batch builder alone
MaxLiveRows == 1        \* rows of a report fetched inside the campaign loop
PageLimit == 2          \* the page size of the paged loops (limit = 1000 in the code)
MaxUpstream == 4        \* rows upstream holds for one window
MaxBackfillDays == 8    \* the --backfill argument
MaxChunkedDays == 15    \* the --backfill argument where run_backfill is run alone
MaxBackfillRows == 1    \* rows upstream holds for the window of a backfill chunk
MaxPacedCampaigns == 21 \* campaigns of a sync whose pacing is followed
MaxCycles == 2          \* sync cycles a continuous worker is followed through
MaxConvRows == 3        \* rows of the conversions page the campaign filter is applied to

(* Program constants *)
TicksPerHour == 2       \* a tick is 30 minutes
LiveTokenTTL == 3 * TicksPerHour          \* timedelta(hours=3)
ClientTokenTTL == 3 * TicksPerHour + 1    \* timedelta(hours=3, minutes=30)
NoToken == 0            \* token: Optional[str] = None
NoExpiry == -1          \* token_expires: Optional[datetime] = None
HoursPerDay == 24
DayTicks == HoursPerDay * TicksPerHour    \* timedelta(days=1)
PaceEvery == 10
chunk_size == 7         \* days per chunk
NoDate == -999999       \* from_date / to_date: Optional[datetime] = None
NoExit == -1            \* the process is still running

VARIABLES
    now,            \* datetime.now()
    owner,          \* the class of the object holding the token cache
    token,          \* self.token
    token_expires,  \* self.token_expires
    exchanges,      \* POSTs to /auth/access/session issued by the object
    last_auth,      \* what the last call did: "none", "cached", "exchanged", "failed"
    last_ret,       \* the token the last call handed to its caller
    issued,         \* the session the last successful exchange issued
    auth_failed,    \* a credential exchange failed since the entry call began
    \* VoluumLiveCollector
    entry,          \* the method called from outside: "run_full_sync", "sync_live"
    pc,             \* where that call stands
    outcome,        \* "running", "returned" or "raised": how the entry call ended
    entity,         \* the sync in progress: "visits", "clicks", "conversions"
    campaign_ids,   \* the campaign_ids argument of sync_live_visits / sync_live_clicks
    cids,           \* the list the campaign loop iterates over
    i,              \* campaigns of cids the loop is done with
    seen_click_ids, \* seen_click_ids
    total_synced,   \* total_synced
    results,        \* results of run_full_sync
    store,          \* the destination tables: click_id -> raw_data (0: no row)
    requested,      \* campaigns _request was called for, in call order
    last_get,       \* the last campaign's GET: "none", "ok", "fail"
    last_upsert,    \* the last campaign's upsert: "none", "ok", "fail"
    page_rows,      \* rows: the rows of a report
    page_batch,     \* batch: the records built from them
    \* the paged loops
    offset,         \* offset
    upstream_rows,  \* how many rows upstream holds for the window of the call
    pages_requested,\* page fetches the call has issued
    last_page_len,  \* len(rows) of the last page fetched
    page_failed,    \* a fetch or an upsert of a page of the call raised
    \* DataCollector and sync_worker
    caller,         \* who called the sync: "direct", "run_full_sync", "run_backfill"
    arg_from,       \* the from_date argument of the sync (NoDate: not given)
    arg_to,         \* the to_date argument of the sync (NoDate: not given)
    from_date,      \* from_date
    to_date,        \* to_date
    sync_state,     \* the sync_state table: sync_type -> row
    db,             \* the visits and conversions tables: the visit ids, and
                    \* the conversion rows by conversion_id
    days,           \* run_backfill: days
    start_day,      \* run_backfill: start_day
    call,           \* the current or last sync call on the DataCollector: its
                    \* sync_type, status, cursor writes, page upserts and the
                    \* sync_state row it started from
    \* the workers and what they did
    log,            \* the syncs started and ended in the current cycle or
                    \* backfill chunk, in order
    chunks,         \* run_backfill: the [start_day, end_day) chunks taken so far
    pacing,         \* the campaign loop: asyncio.sleep(1) calls made, and the
                    \* campaign requests issued since the last of them
    exit_status,    \* the status the process exited with (NoExit: it has not)
    waited,         \* how the last wait between cycles came back: the event
                    \* was set, or the interval ran out
    first_run,      \* the destination tables as the first of two runs of
                    \* the same sync left them
    shutdown,       \* shutdown_event.is_set()
    cycles          \* sync cycles the continuous worker has started; runs of
                    \* a sync that is run again

authVars == <<owner, token, token_expires, exchanges, last_auth, last_ret,
              issued, auth_failed>>
liveVars == <<entry, pc, outcome, entity, campaign_ids, cids, i, seen_click_ids,
              total_synced, results, store, requested, last_get, last_upsert,
              page_rows, page_batch>>
pagedVars == <<offset, upstream_rows, pages_requested, last_page_len, page_failed>>
syncVars == <<caller, arg_from, arg_to, from_date, to_date, sync_state, db, days,
              start_day, call>>
workerVars == <<log, chunks, pacing, exit_status, waited, first_run, shutdown, cycles>>
vars == <<now, authVars, liveVars, pagedVars, syncVars, workerVars>>

Tokens == 1..MaxTokens

\* What the identity endpoint answers: a non-success status, or a body whose
\* "token" is a string or is missing (resp.json().get("token") is None).
AuthResponses ==
    {[status |-> "error", token |-> NoToken]}
        \cup {[status |-> "ok", token |-> t] : t \in Tokens \cup {NoToken}}

Owners == {"VoluumLiveCollector", "VoluumClient"}

TOKEN_TTL == IF owner = "VoluumLiveCollector" THEN LiveTokenTTL ELSE ClientTokenTTL

---------------------------------------------------------------------------
(* Auth Token Manager *)

token_valid_flipped ==
    token # NoToken /\ token_expires # NoExpiry /\ now > token_expires

\* if self.token and self.token_expires and datetime.now() < self.token_expires
token_valid ==
    token # NoToken /\ token_expires # NoExpiry /\ now < token_expires

new_expiry_kept ==
    IF token_expires # NoExpiry THEN token_expires ELSE now + TOKEN_TTL

\* self.token_expires = datetime.now() + timedelta(...)
new_expiry == now + TOKEN_TTL

\* _ensure_auth (VoluumLiveCollector) / _ensure_authenticated (VoluumClient).
\* VoluumClient._request reads self.token right after the call, which is the
\* value last_ret records for it.
ensure_auth(resp) ==
    /\ IF token_valid
       THEN /\ UNCHANGED <<token, token_expires, exchanges, issued>>
            /\ last_auth' = "cached"
            /\ last_ret' = token
            /\ UNCHANGED auth_failed
       ELSE /\ exchanges' = exchanges + 1
            /\ IF resp.status = "error"
               THEN \* raise_for_status() raises before any assignment
                    /\ UNCHANGED <<token, token_expires, issued>>
                    /\ last_auth' = "failed"
                    /\ last_ret' = NoToken
                    /\ auth_failed' = TRUE
               ELSE /\ token' = resp.token
                    /\ token_expires' = new_expiry
                    /\ issued' = [token |-> resp.token, at |-> now]
                    /\ last_auth' = "exchanged"
                    /\ last_ret' = resp.token
                    /\ UNCHANGED auth_failed
    /\ UNCHANGED owner

\* Time passes until the cached token has run out.
TokenRunsOut ==
    /\ token_valid
    /\ token_expires <= MaxNow
    /\ now' = token_expires
    /\ UNCHANGED <<authVars, liveVars, pagedVars, syncVars, workerVars>>

\* Time passes.
Tick ==
    /\ now < MaxNow
    /\ now' = now + 1
    /\ UNCHANGED <<authVars, liveVars, pagedVars, syncVars, workerVars>>

AuthCall ==
    /\ exchanges < MaxExchanges
    /\ \E resp \in AuthResponses : ensure_auth(resp)
    /\ UNCHANGED <<workerVars, now, liveVars, pagedVars, syncVars>>

InitAuthFields ==
    /\ token = NoToken
    /\ token_expires = NoExpiry
    /\ exchanges = 0
    /\ last_auth = "none"
    /\ last_ret = NoToken
    /\ issued = [token |-> NoToken, at |-> 0]
    /\ auth_failed = FALSE

Keys == 1..MaxKeys
NoKey == 0              \* row.get("clickId") is None

EmptyTable == [k \in Keys |-> 0]

\* Timestamp strings: the hour t they show and the way they are written:
\* "ampm" ("2025-12-18 12:52:23 AM": t = 12, pm = FALSE), "iso"
\* ("2025-12-18T00:52:23": t = 0), "isoz" (the same with a trailing Z),
\* "isotz" (with +00:00), "other" (anything else), "empty" ("") and "none"
\* (None). The conversions of the cycle carry "iso" ones.
IsoTimestamps == {[fmt |-> "iso", t |-> 1]}
\* The postback timestamps the conversions table can hold, as stored.
StoredTimestamps == {[fmt |-> "iso", t |-> t] : t \in 1..2}
ConversionKeys == Keys \X StoredTimestamps
EmptyConversions == [k \in ConversionKeys |-> 0]

InitLiveFields ==
    /\ outcome = "running"
    /\ cids = <<>>
    /\ i = 0
    /\ total_synced = 0
    /\ results = [visits |-> 0, clicks |-> 0, conversions |-> 0]
    /\ store = [live_visits |-> EmptyTable, live_clicks |-> EmptyTable,
                conversions |-> EmptyConversions]
    /\ requested = <<>>
    /\ last_get = "none"
    /\ last_upsert = "none"
    /\ page_batch = <<>>

NoReport ==
    /\ seen_click_ids = {}
    /\ page_rows = <<>>

NoCall == [sync_type |-> "none", status |-> "none", writes |-> 0, upserts |-> 0,
           before |-> [present |-> FALSE, last_sync_timestamp |-> 0, records_synced |-> 0]]

InitSyncFields ==
    /\ caller = "direct"
    /\ arg_from = NoDate
    /\ arg_to = NoDate
    /\ from_date = NoDate
    /\ to_date = NoDate
    /\ db = [visits |-> {}, conversions |-> {}]
    /\ days = 0
    /\ start_day = 0
    /\ call = NoCall

NoCursor ==
    sync_state = [e \in {"visits", "conversions"} |->
                    [present |-> FALSE, last_sync_timestamp |-> 0, records_synced |-> 0]]

InitWorkerFields ==
    /\ log = <<>>
    /\ chunks = <<>>
    /\ pacing = [pauses |-> 0, run |-> 0]
    /\ exit_status = NoExit
    /\ waited = "none"
    /\ first_run = <<>>
    /\ shutdown = FALSE
    /\ cycles = 0

InitPagedFields ==
    /\ offset = 0
    /\ upstream_rows = 0
    /\ pages_requested = 0
    /\ last_page_len = 0
    /\ page_failed = FALSE

InitAuth ==
    /\ now = 0
    /\ owner \in Owners
    /\ InitAuthFields
    /\ entry = "get_token"
    /\ pc = "done"
    /\ entity = "visits"
    /\ campaign_ids = <<>>
    /\ InitLiveFields
    /\ NoReport
    /\ InitPagedFields
    /\ InitSyncFields
    /\ InitWorkerFields
    /\ NoCursor

NextAuth == AuthCall \/ Tick

SpecAuth == InitAuth /\ [][NextAuth]_vars

---------------------------------------------------------------------------
(* VoluumLiveCollector: the campaign-scoped syncs *)

SeqsUpTo(S, n) == UNION {[1..m -> S] : m \in 0..n}

\* The "rows" of a live report. Row j carries its click id and, as the rest
\* of its fields, its position j: no two rows of a report are the same dict.
Rows(ks) == [j \in 1..Len(ks) |-> [clickId |-> ks[j], raw |-> j]]

Reports(n) == {Rows(ks) : ks \in SeqsUpTo(Keys \cup {NoKey}, n)}

\* The reports a whole cycle is run against: rows of one click id, or of none.
CycleReports(n) == {Rows(ks) : ks \in SeqsUpTo({NoKey, 1}, n)}

\* The identity endpoint as a sync sees it: a non-success status, or the token.
LiveAuthResponses ==
    {[status |-> "error", token |-> NoToken], [status |-> "ok", token |-> 1]}

\* The campaign ids get_tracked_campaigns returns, one per report row.
CampaignLists == {[c \in 1..n |-> c] : n \in 0..MaxCampaigns}

\* transform_visit / transform_click
transform_visit(raw) == [click_id |-> raw.clickId, raw_data |-> raw.raw]

RECURSIVE build_batch_unseen(_, _, _)
build_batch_unseen(rows, seen, batch) ==
    IF rows = <<>>
    THEN [batch |-> batch, seen |-> seen]
    ELSE LET row == Head(rows)
             click_id == row.clickId
         IN IF click_id # NoKey /\ click_id \notin seen
            THEN build_batch_unseen(Tail(rows), seen, Append(batch, transform_visit(row)))
            ELSE build_batch_unseen(Tail(rows), seen, batch)

RECURSIVE build_batch_per_campaign(_, _, _)
build_batch_per_campaign(rows, seen, batch) ==
    IF rows = <<>>
    THEN [batch |-> batch, seen |-> seen]
    ELSE LET row == Head(rows)
             click_id == row.clickId
         IN IF click_id # NoKey /\ \A j \in 1..Len(batch) : batch[j].click_id # click_id
            THEN build_batch_per_campaign(Tail(rows), seen \cup {click_id},
                                          Append(batch, transform_visit(row)))
            ELSE build_batch_per_campaign(Tail(rows), seen, batch)

\* for row in rows: ... if click_id and click_id not in seen_click_ids: ...
RECURSIVE build_batch(_, _, _)
build_batch(rows, seen, batch) ==
    IF rows = <<>>
    THEN [batch |-> batch, seen |-> seen]
    ELSE LET row == Head(rows)
             click_id == row.clickId
         IN IF click_id # NoKey /\ click_id \notin seen
            THEN LET visit == transform_visit(row)
                 IN build_batch(Tail(rows), seen \cup {click_id},
                                IF visit.click_id # NoKey
                                THEN Append(batch, visit) ELSE batch)
            ELSE build_batch(Tail(rows), seen, batch)

\* table(...).upsert(batch, on_conflict="click_id"): the records are applied
\* in order, a later record of a key overwriting an earlier one.
RECURSIVE upsert(_, _)
upsert(table, batch) ==
    IF batch = <<>>
    THEN table
    ELSE upsert([table EXCEPT ![Head(batch).click_id] = Head(batch).raw_data], Tail(batch))

table_of(e) == IF e = "visits" THEN "live_visits" ELSE "live_clicks"

\* _request raises when the credential exchange failed, when no token came
\* back to put in the cwauth-token header, or when the GET's status is bad.
request_raises(get_ok) == last_auth' = "failed" \/ last_ret' = NoToken \/ ~get_ok

\* The entries of log: a sync (or follow-up) was called with a window, and
\* it came back, "returned" or "raised".
started(e, f, t) == [ev |-> "start", sync |-> e, from |-> f, to |-> t]
ended(e, how) == [ev |-> "end", sync |-> e, how |-> how]

otherVars == <<chunks, pacing, exit_status, waited, first_run, shutdown, cycles>>

raise_out_swallowed ==
    /\ pc' = "dc_followups"
    /\ outcome' = "running"

raise_out_reruns_cycle ==
    /\ pc' = "w_cycle"
    /\ outcome' = "raised"

\* The entry call ends with the exception.
raise_out ==
    /\ pc' = "done"
    /\ outcome' = "raised"

abort_loop_after_error == Len(cids)

\* except Exception as e: logger.error(...); continue
next_after_error == i + 1

\* sync_live_visits / sync_live_clicks up to the loop: an empty (or missing)
\* campaign_ids is replaced by the ids get_tracked_campaigns finds.
sync_live_start(resp, get_ok, found) ==
    /\ pc = "sync_start"
    /\ IF campaign_ids = <<>>
       THEN /\ ensure_auth(resp)
            /\ IF request_raises(get_ok)
               THEN /\ raise_out
                    /\ log' = log \o <<started(entity, NoDate, NoDate),
                                        ended(entity, "raised")>>
                    /\ UNCHANGED cids
               ELSE /\ cids' = found
                    /\ pc' = "sync_loop"
                    /\ log' = Append(log, started(entity, NoDate, NoDate))
                    /\ UNCHANGED outcome
       ELSE /\ cids' = campaign_ids
            /\ pc' = "sync_loop"
            /\ log' = Append(log, started(entity, NoDate, NoDate))
            /\ UNCHANGED <<authVars, outcome>>
    /\ total_synced' = 0
    /\ seen_click_ids' = {}
    /\ i' = 0
    /\ requested' = <<>>
    /\ last_get' = "none"
    /\ last_upsert' = "none"
    /\ pacing' = [pauses |-> 0, run |-> 0]
    /\ UNCHANGED <<chunks, exit_status, waited, first_run, shutdown, cycles, now, entry, entity, campaign_ids,
                   results, store, page_rows, page_batch, pagedVars, syncVars>>

pause_due_never(k) == FALSE

\* if i > 0 and i % 10 == 0
pause_due(k) == k > 0 /\ k % PaceEvery = 0

\* One pass of "for i, cid in enumerate(campaign_ids)": the pause when it is
\* due, then the request of the campaign.
sync_live_iter(resp, get_ok, rows, upsert_ok) ==
    /\ pc = "sync_loop"
    /\ i < Len(cids)
    /\ pacing' = IF pause_due(i)
                 THEN [pauses |-> pacing.pauses + 1, run |-> 1]
                 ELSE [pauses |-> pacing.pauses, run |-> pacing.run + 1]
    /\ ensure_auth(resp)
    /\ requested' = Append(requested, cids[i + 1])
    /\ IF request_raises(get_ok)
       THEN /\ last_get' = "fail"
            /\ last_upsert' = "none"
            /\ i' = next_after_error
            /\ UNCHANGED <<seen_click_ids, store, total_synced>>
       ELSE LET built == build_batch(rows, seen_click_ids, <<>>)
                batch == built.batch
            IN /\ last_get' = "ok"
               /\ IF rows = <<>>
                  THEN \* if not rows: continue
                       /\ last_upsert' = "none"
                       /\ i' = i + 1
                       /\ UNCHANGED <<seen_click_ids, store, total_synced>>
                  ELSE /\ seen_click_ids' = built.seen
                       /\ IF batch = <<>>
                          THEN /\ last_upsert' = "none"
                               /\ i' = i + 1
                               /\ UNCHANGED <<store, total_synced>>
                          ELSE IF upsert_ok
                          THEN /\ last_upsert' = "ok"
                               /\ store' = [store EXCEPT ![table_of(entity)] = upsert(@, batch)]
                               /\ total_synced' = total_synced + Len(batch)
                               /\ i' = i + 1
                          ELSE /\ last_upsert' = "fail"
                               /\ i' = next_after_error
                               /\ UNCHANGED <<store, total_synced>>
    /\ UNCHANGED <<log, chunks, exit_status, waited, first_run, shutdown, cycles, now, entry, pc, outcome,
                   entity, campaign_ids, cids, results, page_rows, page_batch, pagedVars,
                   syncVars>>

next_entity_skipping_clicks(e) == "conversions"

\* run_full_sync: the sync that follows sync e
next_entity(e) == IF e = "visits" THEN "clicks" ELSE "conversions"

\* return total_synced
sync_live_return ==
    /\ pc = "sync_loop"
    /\ i >= Len(cids)
    /\ results' = [results EXCEPT ![entity] = total_synced]
    /\ log' = Append(log, ended(entity, "returned"))
    /\ IF entry = "sync_live"
       THEN /\ pc' = "done"
            /\ outcome' = "returned"
            /\ UNCHANGED entity
       ELSE /\ UNCHANGED outcome
            /\ entity' = next_entity(entity)
            /\ pc' = IF entity' = "clicks" THEN "sync_start" ELSE "conv_start"
    /\ UNCHANGED <<otherVars, now, authVars, entry, campaign_ids, cids, i, seen_click_ids,
                   total_synced, store, requested, last_get, last_upsert,
                   page_rows, page_batch, pagedVars, syncVars>>

\* A caller invokes sync_live_visits or sync_live_clicks on a fresh collector.
InitLiveCall ==
    /\ now = 0
    /\ owner = "VoluumLiveCollector"
    /\ InitAuthFields
    /\ InitLiveFields
    /\ NoReport
    /\ InitPagedFields
    /\ InitSyncFields
    /\ InitWorkerFields
    /\ NoCursor
    /\ entry = "sync_live"
    /\ pc = "sync_start"
    /\ entity \in {"visits", "clicks"}
    /\ campaign_ids \in CampaignLists

NextLiveCall ==
    \/ \E resp \in LiveAuthResponses, get_ok \in BOOLEAN, found \in CampaignLists :
           sync_live_start(resp, get_ok, found)
    \/ \E resp \in LiveAuthResponses, get_ok \in BOOLEAN, rows \in Reports(MaxLiveRows),
          upsert_ok \in BOOLEAN :
           sync_live_iter(resp, get_ok, rows, upsert_ok)
    \/ sync_live_return

SpecLiveCall == InitLiveCall /\ [][NextLiveCall]_vars

\* The same call over a long campaign list; every campaign reports nothing or
\* one row.
PacedLists == {[c \in 1..n |-> c] : n \in 0..MaxPacedCampaigns}

PacedReports == {<<>>, Rows(<<1>>)}

InitPacing ==
    /\ now = 0
    /\ owner = "VoluumLiveCollector"
    /\ InitAuthFields
    /\ InitLiveFields
    /\ NoReport
    /\ InitPagedFields
    /\ InitSyncFields
    /\ InitWorkerFields
    /\ NoCursor
    /\ entry = "sync_live"
    /\ pc = "sync_start"
    /\ entity \in {"visits", "clicks"}
    /\ campaign_ids \in PacedLists

NextPacing ==
    \/ \E resp \in LiveAuthResponses, get_ok \in BOOLEAN, found \in PacedLists :
           sync_live_start(resp, get_ok, found)
    \/ \E resp \in LiveAuthResponses, get_ok \in BOOLEAN, rows \in PacedReports,
          upsert_ok \in BOOLEAN :
           sync_live_iter(resp, get_ok, rows, upsert_ok)
    \/ sync_live_return

SpecPacing == InitPacing /\ [][NextPacing]_vars

\* The batch builder on its own: any report, any set of ids already seen.
apply_build_batch ==
    /\ pc = "batch_input"
    /\ LET built == build_batch(page_rows, seen_click_ids, <<>>)
       IN /\ page_batch' = built.batch
          /\ seen_click_ids' = built.seen
    /\ pc' = "batch_built"
    /\ UNCHANGED <<workerVars, now, authVars, entry, outcome, entity, campaign_ids, cids, i,
                   total_synced, results, store, requested, last_get, last_upsert,
                   page_rows, pagedVars, syncVars>>

InitBatch ==
    /\ now = 0
    /\ owner = "VoluumLiveCollector"
    /\ InitAuthFields
    /\ InitLiveFields
    /\ entry = "build_batch"
    /\ pc = "batch_input"
    /\ entity = "visits"
    /\ campaign_ids = <<>>
    /\ page_rows \in Reports(MaxRows)
    /\ seen_click_ids \in SUBSET Keys
    /\ InitPagedFields
    /\ InitSyncFields
    /\ InitWorkerFields
    /\ NoCursor

NextBatch == apply_build_batch

SpecBatch == InitBatch /\ [][NextBatch]_vars

---------------------------------------------------------------------------
(* VoluumLiveCollector.sync_conversions and run_full_sync *)

\* The rows of a conversions page: row j of the page is the dict
\* [clickId, campaignName (match: whether campaign_filter is in it),
\*  postbackTimestamp] and its position j.
ConversionRows ==
    {[clickId |-> k, match |-> m, postbackTimestamp |-> t] :
        k \in {NoKey, 1}, m \in BOOLEAN, t \in IsoTimestamps}

ConversionPages(n) ==
    {[j \in 1..n |-> [clickId |-> r[j].clickId, match |-> r[j].match,
                      postbackTimestamp |-> r[j].postbackTimestamp, raw |-> j]] :
        r \in [1..n -> ConversionRows]}

\* What upstream returns at an offset: at most limit rows of the result set.
page_len(off) ==
    IF upstream_rows - off >= PageLimit THEN PageLimit
    ELSE IF upstream_rows - off > 0 THEN upstream_rows - off ELSE 0

short_page_only_if_empty(n) == n = 0

\* if len(rows) < limit: break
short_page(n) == n < PageLimit

\* _parse_timestamp: the AM/PM format first, then fromisoformat with Z
\* replaced by +00:00, else the string as it came.
NoTimestamp == [fmt |-> "none", t |-> 0]

hour24_plain(h, pm) == IF pm THEN h + 12 ELSE h

\* strptime "%I ... %p": the hour of the 12-hour clock with AM or PM
hour24(h, pm) == IF h = 12 THEN (IF pm THEN 12 ELSE 0) ELSE (IF pm THEN h + 12 ELSE h)

parse_timestamp(ts) ==
    IF ts.fmt \in {"none", "empty"} THEN NoTimestamp
    ELSE IF ts.fmt = "ampm" /\ ts.t \in 1..12 THEN [fmt |-> "iso", t |-> hour24(ts.t, ts.pm)]
    ELSE IF ts.fmt = "iso" THEN [fmt |-> "iso", t |-> ts.t]
    ELSE IF ts.fmt \in {"isoz", "isotz"} THEN [fmt |-> "isotz", t |-> ts.t]
    ELSE ts

\* The value of a monetary field of a raw record: the key is absent, or it
\* holds null, a number, a string that reads as a number ("5.0"), the empty
\* string, another string ("abc"), or a list.
Absent == [kind |-> "absent", v |-> 0]

MoneyValues ==
    {Absent, [kind |-> "null", v |-> 0], [kind |-> "number", v |-> 0],
     [kind |-> "number", v |-> 5], [kind |-> "numstr", v |-> 5],
     [kind |-> "emptystr", v |-> 0], [kind |-> "text", v |-> 0], [kind |-> "list", v |-> 0]}

MoneyFields == {"revenue", "payout", "cost", "profit"}

\* raw.get(f)
get(raw, f) == IF f \in DOMAIN raw THEN raw[f] ELSE Absent

\* float(x or 0) raises ValueError for "abc" and TypeError for a list
float_raises(x) == x.kind \in {"text", "list"}

\* float(x or 0) when it returns
float_or_zero(x) == IF x.kind \in {"number", "numstr"} THEN x.v ELSE 0

transform_conversion_raises(raw) == \E f \in MoneyFields : float_raises(get(raw, f))

\* transform_conversion
transform_conversion(raw) ==
    [click_id |-> raw.clickId,
     postback_timestamp |-> parse_timestamp(raw.postbackTimestamp),
     revenue |-> float_or_zero(get(raw, "revenue")),
     payout |-> float_or_zero(get(raw, "payout")),
     cost |-> float_or_zero(get(raw, "cost")),
     profit |-> float_or_zero(get(raw, "profit")),
     raw_data |-> raw.raw]

RECURSIVE build_conversion_batch_unfiltered(_, _, _)
build_conversion_batch_unfiltered(rows, seen, batch) ==
    IF rows = <<>>
    THEN batch
    ELSE LET row == Head(rows)
             key == <<row.clickId, row.postbackTimestamp>>
         IN IF key \notin seen
            THEN LET conv == transform_conversion(row)
                 IN build_conversion_batch_unfiltered(Tail(rows), seen \cup {key},
                        IF conv.click_id # NoKey THEN Append(batch, conv) ELSE batch)
            ELSE build_conversion_batch_unfiltered(Tail(rows), seen, batch)

\* for row in rows: the campaign filter, the page's seen set, the batch
RECURSIVE build_conversion_batch(_, _, _)
build_conversion_batch(rows, seen, batch) ==
    IF rows = <<>>
    THEN batch
    ELSE LET row == Head(rows)
             key == <<row.clickId, row.postbackTimestamp>>
         IN IF ~row.match
            THEN build_conversion_batch(Tail(rows), seen, batch)
            ELSE IF key \notin seen
            THEN LET conv == transform_conversion(row)
                 IN build_conversion_batch(Tail(rows), seen \cup {key},
                        IF conv.click_id # NoKey THEN Append(batch, conv) ELSE batch)
            ELSE build_conversion_batch(Tail(rows), seen, batch)

\* table("conversions").upsert(batch, on_conflict="click_id,postback_timestamp")
RECURSIVE upsert_conversions(_, _)
upsert_conversions(table, batch) ==
    IF batch = <<>>
    THEN table
    ELSE upsert_conversions(
             [table EXCEPT ![<<Head(batch).click_id, Head(batch).postback_timestamp>>]
                               = Head(batch).raw_data],
             Tail(batch))

\* sync_conversions up to "while True"
conv_start(n) ==
    /\ pc = "conv_start"
    /\ total_synced' = 0
    /\ offset' = 0
    /\ upstream_rows' = n
    /\ pages_requested' = 0
    /\ last_page_len' = 0
    /\ page_failed' = FALSE
    /\ pc' = "conv_loop"
    /\ log' = Append(log, started("conversions", NoDate, NoDate))
    /\ UNCHANGED <<otherVars, now, authVars, entry, outcome, entity, campaign_ids, cids, i,
                   seen_click_ids, results, store, requested, last_get, last_upsert,
                   page_rows, page_batch, syncVars>>

\* One pass of "while True": a page is fetched, filtered, deduplicated and
\* upserted; "except Exception: break" ends the loop like a short page does.
conv_page(resp, get_ok, rows, upsert_ok) ==
    /\ pc = "conv_loop"
    /\ Len(rows) = page_len(offset)
    /\ ensure_auth(resp)
    /\ pages_requested' = pages_requested + 1
    /\ IF request_raises(get_ok)
       THEN /\ last_get' = "fail"
            /\ last_upsert' = "none"
            /\ page_failed' = TRUE
            /\ pc' = "conv_return"
            /\ UNCHANGED <<last_page_len, store, total_synced, offset>>
       ELSE LET batch == build_conversion_batch(rows, {}, <<>>)
            IN /\ last_get' = "ok"
               /\ last_page_len' = Len(rows)
               /\ IF rows = <<>> \/ batch = <<>>
                  THEN /\ last_upsert' = "none"
                       /\ UNCHANGED <<store, total_synced, page_failed>>
                       /\ IF short_page(Len(rows))
                          THEN pc' = "conv_return" /\ UNCHANGED offset
                          ELSE pc' = "conv_loop" /\ offset' = offset + PageLimit
                  ELSE IF upsert_ok
                  THEN /\ last_upsert' = "ok"
                       /\ store' = [store EXCEPT !.conversions = upsert_conversions(@, batch)]
                       /\ total_synced' = total_synced + Len(batch)
                       /\ UNCHANGED page_failed
                       /\ IF short_page(Len(rows))
                          THEN pc' = "conv_return" /\ UNCHANGED offset
                          ELSE pc' = "conv_loop" /\ offset' = offset + PageLimit
                  ELSE /\ last_upsert' = "fail"
                       /\ page_failed' = TRUE
                       /\ pc' = "conv_return"
                       /\ UNCHANGED <<store, total_synced, offset>>
    /\ UNCHANGED <<workerVars, now, entry, outcome, entity, campaign_ids, cids, i, seen_click_ids,
                   results, requested, page_rows, page_batch, upstream_rows, syncVars>>

\* return total_synced; in run_full_sync, return results
conv_return ==
    /\ pc = "conv_return"
    /\ results' = [results EXCEPT !.conversions = total_synced]
    /\ log' = Append(log, ended("conversions", "returned"))
    /\ pc' = "done"
    /\ outcome' = "returned"
    /\ UNCHANGED <<otherVars, now, authVars, entry, entity, campaign_ids, cids, i, seen_click_ids,
                   total_synced, store, requested, last_get, last_upsert, page_rows,
                   page_batch, pagedVars, syncVars>>

\* run_full_sync: campaigns = await self.get_tracked_campaigns()
full_sync_discover(resp, get_ok, found) ==
    /\ pc = "full_sync"
    /\ ensure_auth(resp)
    /\ IF request_raises(get_ok)
       THEN /\ raise_out
            /\ UNCHANGED <<campaign_ids, entity>>
       ELSE /\ campaign_ids' = found
            /\ entity' = "visits"
            /\ pc' = "sync_start"
            /\ UNCHANGED outcome
    /\ UNCHANGED <<workerVars, now, entry, cids, i, seen_click_ids, total_synced, results, store,
                   requested, last_get, last_upsert, page_rows, page_batch, pagedVars,
                   syncVars>>

\* A fresh collector runs one cycle (run_sync.py, worker.run_sync_cycle).
InitLive ==
    /\ now = 0
    /\ owner = "VoluumLiveCollector"
    /\ InitAuthFields
    /\ InitLiveFields
    /\ NoReport
    /\ InitPagedFields
    /\ InitSyncFields
    /\ InitWorkerFields
    /\ NoCursor
    /\ entry = "run_full_sync"
    /\ pc = "full_sync"
    /\ entity = "visits"
    /\ campaign_ids = <<>>

NextLive ==
    \/ \E resp \in LiveAuthResponses, get_ok \in BOOLEAN, found \in CampaignLists :
           full_sync_discover(resp, get_ok, found)
    \/ \E resp \in LiveAuthResponses, get_ok \in BOOLEAN, found \in CampaignLists :
           sync_live_start(resp, get_ok, found)
    \/ \E resp \in LiveAuthResponses, get_ok \in BOOLEAN,
          rows \in CycleReports(MaxLiveRows), upsert_ok \in BOOLEAN :
           sync_live_iter(resp, get_ok, rows, upsert_ok)
    \/ sync_live_return
    \/ \E n \in 0..MaxUpstream : conv_start(n)
    \/ \E resp \in LiveAuthResponses, get_ok \in BOOLEAN,
          rows \in UNION {ConversionPages(n) : n \in 0..PageLimit}, upsert_ok \in BOOLEAN :
           conv_page(resp, get_ok, rows, upsert_ok)
    \/ conv_return
    \/ TokenRunsOut

SpecLive == InitLive /\ [][NextLive]_vars

---------------------------------------------------------------------------
(* DataCollector: get_sync_state, update_sync_state, sync_visits,
   sync_conversions, run_full_sync; sync_worker: run_backfill *)

SyncTypes == {"visits", "conversions"}

\* strftime("%Y-%m-%dT%H:00:00"): the minutes and seconds are dropped
hour_str(t) == t - (t % TicksPerHour)

\* get_sync_state(sync_type)["last_sync_timestamp"]: the row's, or one day
\* back when there is no row
get_sync_state(sync_type) ==
    IF sync_state[sync_type].present
    THEN sync_state[sync_type].last_sync_timestamp
    ELSE now - DayTicks

cursor_row_if_synced(sync_type, last_timestamp, records_added) ==
    IF records_added > 0
    THEN [present |-> TRUE, last_sync_timestamp |-> last_timestamp,
          records_synced |-> records_added]
    ELSE sync_state[sync_type]

cursor_row_without_count(sync_type, last_timestamp, records_added) ==
    [present |-> TRUE, last_sync_timestamp |-> last_timestamp, records_synced |-> 0]

\* update_sync_state: the row as the upsert on sync_type leaves it
cursor_row(sync_type, last_timestamp, records_added) ==
    [present |-> TRUE, last_sync_timestamp |-> last_timestamp,
     records_synced |-> records_added]

update_sync_state(sync_type, last_timestamp, records_added) ==
    /\ sync_state' = [sync_state EXCEPT
                         ![sync_type] = cursor_row(sync_type, last_timestamp, records_added)]
    /\ call' = [call EXCEPT !.writes = @ + 1, !.status = "returned"]

\* The rows of the campaign report at an offset: upstream's result set has
\* one row per campaign, campaigns 1..upstream_rows.
report_page(off) == [j \in 1..page_len(off) |-> [campaignId |-> off + j]]

\* "visit_id": f"{row.get('campaignId')}_{from_str}_{offset}"
visit_ids(rows, from_str, off) ==
    {<<rows[j].campaignId, from_str, off>> : j \in 1..Len(rows)}

\* The rows of /report/conversions: a row with no id at all, one with a
\* conversionId, one with only a clickId. conversionTimestamp is the first
\* of conversionTimestamp, timestamp and postbackTimestamp the row has, NoDate
\* when it has none.
DcConversionIds ==
    {[conversionId |-> NoKey, clickId |-> NoKey], [conversionId |-> 1, clickId |-> NoKey],
     [conversionId |-> NoKey, clickId |-> MaxKeys]}

DcConversionRows ==
    {[conversionId |-> r.conversionId, clickId |-> r.clickId,
      conversionTimestamp |-> 0, visitTimestamp |-> NoDate] : r \in DcConversionIds}

DcConversionPages(n) == [1..n -> DcConversionRows]

\* conv_ts = conversionTimestamp or timestamp or postbackTimestamp, else
\* visit_ts or datetime.utcnow().isoformat()
conv_ts(raw) ==
    IF raw.conversionTimestamp # NoDate THEN raw.conversionTimestamp
    ELSE IF raw.visitTimestamp # NoDate THEN raw.visitTimestamp
    ELSE now

\* transform_conversion: "conversion_id" is the first id the row has
dc_transform_conversion(raw) ==
    [conversion_id |-> IF raw.conversionId # NoKey THEN raw.conversionId ELSE raw.clickId,
     click_id |-> raw.clickId,
     conversion_timestamp |-> conv_ts(raw)]

\* table("conversions").upsert(unique_batch, on_conflict="conversion_id")
dc_upsert(table, batch) ==
    {r \in table : \A j \in 1..Len(batch) : batch[j].conversion_id # r.conversion_id}
        \cup {batch[j] : j \in 1..Len(batch)}

\* Deduplicate by conversion_id (keep first occurrence)
RECURSIVE unique_batch(_, _, _)
unique_batch(batch, seen_ids, unique) ==
    IF batch = <<>>
    THEN unique
    ELSE LET conv == dc_transform_conversion(Head(batch))
             cid == conv.conversion_id
         IN IF cid # NoKey /\ cid \notin seen_ids
            THEN unique_batch(Tail(batch), seen_ids \cup {cid}, Append(unique, conv))
            ELSE unique_batch(Tail(batch), seen_ids, unique)

dc_break_on_error ==
    /\ UNCHANGED log
    /\ page_failed' = TRUE
    /\ pc' = IF entity = "visits" THEN "dc_visits_finish" ELSE "dc_conv_finish"
    /\ UNCHANGED <<call, start_day, outcome>>

dc_raise_stops_backfill ==
    /\ call' = [call EXCEPT !.status = "raised"]
    /\ log' = Append(log, ended(entity, "raised"))
    /\ page_failed' = TRUE
    /\ raise_out
    /\ UNCHANGED start_day

\* The exception leaves the sync: run_backfill logs it and goes on with the
\* next chunk; elsewhere it ends the entry call.
dc_raise ==
    /\ call' = [call EXCEPT !.status = "raised"]
    /\ log' = Append(log, ended(entity, "raised"))
    /\ page_failed' = TRUE
    /\ IF caller = "run_backfill"
       THEN /\ start_day' = start_day + chunk_size
            /\ pc' = "bf_chunk"
            /\ UNCHANGED outcome
       ELSE /\ raise_out
            /\ UNCHANGED start_day

\* sync_visits / sync_conversions up to the fetch: the window and the counters
dc_begin(n) ==
    /\ from_date' = IF arg_from = NoDate THEN get_sync_state(entity) ELSE arg_from
    /\ to_date' = IF arg_to = NoDate THEN now ELSE arg_to
    /\ total_synced' = 0
    /\ offset' = 0
    /\ upstream_rows' = n
    /\ pages_requested' = 0
    /\ last_page_len' = 0
    /\ page_failed' = FALSE
    /\ last_get' = "none"
    /\ last_upsert' = "none"
    /\ call' = [sync_type |-> entity, status |-> "running", writes |-> 0, upserts |-> 0,
                before |-> sync_state[entity]]
    /\ log' = Append(log, started(entity, arg_from, arg_to))
    /\ UNCHANGED <<otherVars, now, authVars, entry, outcome, entity, campaign_ids, cids, i,
                   seen_click_ids, results, store, requested, page_rows, page_batch,
                   caller, arg_from, arg_to, sync_state, db, days, start_day>>

sync_visits_start(n) ==
    /\ pc = "dc_start"
    /\ entity = "visits"
    /\ pc' = "dc_visits_loop"
    /\ dc_begin(n)

\* One pass of "while True" of sync_visits.
sync_visits_page(resp, get_ok, upsert_ok) ==
    /\ pc = "dc_visits_loop"
    /\ ensure_auth(resp)
    /\ pages_requested' = pages_requested + 1
    /\ IF request_raises(get_ok)
       THEN /\ last_get' = "fail"
            /\ last_upsert' = "none"
            /\ dc_raise
            /\ UNCHANGED <<last_page_len, db, total_synced, offset>>
       ELSE LET rows == report_page(offset)
            IN /\ last_get' = "ok"
               /\ last_page_len' = Len(rows)
               /\ IF rows = <<>>
                  THEN /\ last_upsert' = "none"
                       /\ pc' = "dc_visits_finish"
                       /\ UNCHANGED <<db, total_synced, offset, call, page_failed,
                                      start_day, outcome, log>>
                  ELSE IF upsert_ok
                  THEN /\ last_upsert' = "ok"
                       /\ db' = [db EXCEPT !.visits =
                                    @ \cup visit_ids(rows, hour_str(from_date), offset)]
                       /\ total_synced' = total_synced + Len(rows)
                       /\ call' = [call EXCEPT !.upserts = @ + 1]
                       /\ UNCHANGED <<page_failed, start_day, outcome, log>>
                       /\ IF short_page(Len(rows))
                          THEN pc' = "dc_visits_finish" /\ UNCHANGED offset
                          ELSE pc' = "dc_visits_loop" /\ offset' = offset + PageLimit
                  ELSE /\ last_upsert' = "fail"
                       /\ dc_raise
                       /\ UNCHANGED <<db, total_synced, offset>>
    /\ UNCHANGED <<otherVars, now, entry, entity, campaign_ids, cids, i, seen_click_ids,
                   results, store, requested, page_rows, page_batch, upstream_rows,
                   caller, arg_from, arg_to, from_date, to_date, sync_state, days>>

\* await self.update_sync_state("visits", ...); return total_synced
sync_visits_finish ==
    /\ pc = "dc_visits_finish"
    /\ update_sync_state("visits", to_date, total_synced)
    /\ log' = Append(log, ended("visits", "returned"))
    /\ results' = IF caller = "run_full_sync"
                  THEN [results EXCEPT !.visits = total_synced] ELSE results
    /\ IF caller = "direct"
       THEN /\ pc' = "done"
            /\ outcome' = "returned"
            /\ UNCHANGED entity
       ELSE /\ entity' = "conversions"
            /\ pc' = "dc_start"
            /\ UNCHANGED outcome
    /\ UNCHANGED <<otherVars, now, authVars, entry, campaign_ids, cids, i, seen_click_ids,
                   total_synced, store, requested, last_get, last_upsert, page_rows,
                   page_batch, pagedVars, caller, arg_from, arg_to, from_date, to_date,
                   db, days, start_day>>

dc_conversions_start(n) ==
    /\ pc = "dc_start"
    /\ entity = "conversions"
    /\ pc' = "dc_conv_fetch"
    /\ dc_begin(n)

\* The try block of sync_conversions: one fetch with limit=1000, the batch
\* deduplicated by conversion_id, one upsert.
dc_conversions_fetch(resp, get_ok, conversions, upsert_ok) ==
    /\ pc = "dc_conv_fetch"
    /\ Len(conversions) = page_len(0)
    /\ ensure_auth(resp)
    /\ pages_requested' = pages_requested + 1
    /\ IF request_raises(get_ok)
       THEN /\ last_get' = "fail"
            /\ last_upsert' = "none"
            /\ dc_raise
            /\ UNCHANGED <<last_page_len, db, total_synced>>
       ELSE LET unique == unique_batch(conversions, {}, <<>>)
            IN /\ last_get' = "ok"
               /\ last_page_len' = Len(conversions)
               /\ IF unique = <<>>
                  THEN /\ last_upsert' = "none"
                       /\ total_synced' = 0
                       /\ pc' = "dc_conv_finish"
                       /\ UNCHANGED <<db, call, page_failed, start_day, outcome, log>>
                  ELSE IF upsert_ok
                  THEN /\ last_upsert' = "ok"
                       /\ db' = [db EXCEPT !.conversions = dc_upsert(@, unique)]
                       /\ total_synced' = Len(unique)
                       /\ call' = [call EXCEPT !.upserts = @ + 1]
                       /\ pc' = "dc_conv_finish"
                       /\ UNCHANGED <<page_failed, start_day, outcome, log>>
                  ELSE /\ last_upsert' = "fail"
                       /\ dc_raise
                       /\ UNCHANGED <<db, total_synced>>
    /\ UNCHANGED <<otherVars, now, entry, entity, campaign_ids, cids, i, seen_click_ids,
                   results, store, requested, page_rows, page_batch, offset, upstream_rows,
                   caller, arg_from, arg_to, from_date, to_date, sync_state, days>>

\* await self.update_sync_state("conversions", ...); return total_synced
dc_conversions_finish ==
    /\ pc = "dc_conv_finish"
    /\ update_sync_state("conversions", to_date, total_synced)
    /\ log' = Append(log, ended("conversions", "returned"))
    /\ results' = IF caller = "run_full_sync"
                  THEN [results EXCEPT !.conversions = total_synced] ELSE results
    /\ IF caller = "direct"
       THEN /\ pc' = "done"
            /\ outcome' = "returned"
            /\ UNCHANGED start_day
       ELSE IF caller = "run_full_sync"
       THEN /\ pc' = "dc_followups"
            /\ UNCHANGED <<outcome, start_day>>
       ELSE \* run_backfill: the totals, then the delay between chunks
            /\ pc' = "bf_sleep"
            /\ UNCHANGED <<outcome, start_day>>
    /\ UNCHANGED <<otherVars, now, authVars, entry, entity, campaign_ids, cids, i,
                   seen_click_ids, total_synced, store, requested, last_get, last_upsert,
                   page_rows, page_batch, pagedVars, caller, arg_from, arg_to, from_date,
                   to_date, db, days>>

\* run_full_sync after the two syncs: aggregate_hourly_stats (which only
\* logs) and cleanup_old_data, an RPC that may raise.
dc_followups(cleanup_ok) ==
    /\ pc = "dc_followups"
    /\ pc' = "done"
    /\ outcome' = IF cleanup_ok THEN "returned" ELSE "raised"
    /\ log' = log \o <<started("aggregate", NoDate, NoDate), ended("aggregate", "returned"),
                        started("cleanup", NoDate, NoDate),
                        ended("cleanup", IF cleanup_ok THEN "returned" ELSE "raised")>>
    /\ UNCHANGED <<otherVars, now, authVars, entry, entity, campaign_ids, cids, i, seen_click_ids,
                   total_synced, results, store, requested, last_get, last_upsert,
                   page_rows, page_batch, pagedVars, syncVars>>

chunk_end_unclipped(s, d) == s + chunk_size

\* end_day = min(start_day + chunk_size, days)
chunk_end(s, d) == IF s + chunk_size < d THEN s + chunk_size ELSE d

chunk_date_not_given(day) == NoDate

\* datetime.utcnow() - timedelta(days=day)
chunk_date(day) == now - day * DayTicks

\* run_backfill: one pass of "for start_day in range(0, days, chunk_size)" up
\* to the call of sync_visits, or the end of the loop.
backfill_chunk ==
    /\ pc = "bf_chunk"
    /\ IF start_day < days
       THEN LET end_day == chunk_end(start_day, days)
            IN /\ arg_from' = chunk_date(end_day)
               /\ arg_to' = chunk_date(start_day)
               /\ entity' = "visits"
               /\ pc' = "dc_start"
               /\ chunks' = Append(chunks, <<start_day, end_day>>)
               /\ log' = <<>>
               /\ UNCHANGED outcome
       ELSE /\ pc' = "done"
            /\ outcome' = "returned"
            /\ UNCHANGED <<arg_from, arg_to, entity, chunks, log>>
    /\ UNCHANGED <<pacing, exit_status, waited, first_run, shutdown, cycles, now, authVars, entry, campaign_ids, cids, i, seen_click_ids,
                   total_synced, results, store, requested, last_get, last_upsert,
                   page_rows, page_batch, pagedVars, caller, from_date, to_date,
                   sync_state, db, days, start_day, call>>

\* await asyncio.sleep(2), and the loop takes the next start_day
backfill_sleep ==
    /\ pc = "bf_sleep"
    /\ start_day' = start_day + chunk_size
    /\ pc' = "bf_chunk"
    /\ UNCHANGED <<workerVars, now, authVars, entry, outcome, entity, campaign_ids, cids, i,
                   seen_click_ids, total_synced, results, store, requested, last_get,
                   last_upsert, page_rows, page_batch, pagedVars, caller, arg_from, arg_to,
                   from_date, to_date, sync_state, db, days, call>>

\* What every operation on the collector starts from.
op_begin(e, c) ==
    /\ pc = "idle"
    /\ entry' = e
    /\ caller' = c
    /\ outcome' = "running"
    /\ auth_failed' = FALSE
    /\ UNCHANGED <<workerVars, now, owner, token, token_expires, exchanges, last_auth, last_ret,
                   issued, campaign_ids, cids, i, seen_click_ids, total_synced, results,
                   store, requested, last_get, last_upsert, page_rows, page_batch,
                   pagedVars, from_date, to_date, sync_state, db, call>>

\* sync_worker.run_sync_cycle -> DataCollector.run_full_sync(days_back)
start_run_full_sync(days_back) ==
    /\ op_begin("run_full_sync", "run_full_sync")
    /\ arg_from' = now - days_back * DayTicks
    /\ arg_to' = NoDate
    /\ entity' = "visits"
    /\ pc' = "dc_start"
    /\ UNCHANGED <<days, start_day>>

\* sync_worker.run_backfill(collector, days)
start_run_backfill(d) ==
    /\ op_begin("run_backfill", "run_backfill")
    /\ days' = d
    /\ start_day' = 0
    /\ pc' = "bf_chunk"
    /\ UNCHANGED <<arg_from, arg_to, entity>>

\* A caller invokes sync_visits or sync_conversions itself, with or without
\* a window.
start_sync(sync_type, f, t) ==
    /\ op_begin(sync_type, "direct")
    /\ arg_from' = f
    /\ arg_to' = t
    /\ entity' = sync_type
    /\ pc' = "dc_start"
    /\ UNCHANGED <<days, start_day>>

\* The sync_state rows earlier runs may have left: none, or one of a sync
\* that ended a tick ago.
CursorRows ==
    {[present |-> FALSE, last_sync_timestamp |-> 0, records_synced |-> 0],
     [present |-> TRUE, last_sync_timestamp |-> 0 - 1, records_synced |-> 0]}

\* A DataCollector is made and one operation is run on it (sync_worker.main).
InitSync ==
    /\ now = 0
    /\ owner = "VoluumClient"
    /\ InitAuthFields
    /\ InitLiveFields
    /\ NoReport
    /\ InitPagedFields
    /\ InitSyncFields
    /\ InitWorkerFields
    /\ \E row \in CursorRows : sync_state = [e \in SyncTypes |-> row]
    /\ entry = "none"
    /\ pc = "idle"
    /\ entity = "visits"
    /\ campaign_ids = <<>>

\* The windows a caller passes: none, or a day that ended a tick ago.
Windows == {<<NoDate, NoDate>>, <<now - DayTicks - 1, now - 1>>}

NextSync ==
    \/ \E days_back \in {1} : start_run_full_sync(days_back)
    \/ \E d \in 1..MaxBackfillDays : start_run_backfill(d)
    \/ \E sync_type \in SyncTypes, w \in Windows : start_sync(sync_type, w[1], w[2])
    \/ backfill_chunk
    \/ backfill_sleep
    \/ \E n \in 0..MaxUpstream : sync_visits_start(n)
    \/ \E resp \in LiveAuthResponses, get_ok \in BOOLEAN, upsert_ok \in BOOLEAN :
           sync_visits_page(resp, get_ok, upsert_ok)
    \/ sync_visits_finish
    \/ \E n \in 0..MaxUpstream : dc_conversions_start(n)
    \/ \E resp \in LiveAuthResponses, get_ok \in BOOLEAN,
          conversions \in UNION {DcConversionPages(n) : n \in 0..PageLimit},
          upsert_ok \in BOOLEAN :
           dc_conversions_fetch(resp, get_ok, conversions, upsert_ok)
    \/ dc_conversions_finish
    \/ \E cleanup_ok \in BOOLEAN : dc_followups(cleanup_ok)
    \/ TokenRunsOut

SpecSync == InitSync /\ [][NextSync]_vars

\* sys.exit(0 if success else 1) after the one cycle of run_sync.py or of
\* sync_worker --once
process_exit ==
    /\ pc = "done"
    /\ entry = "run_full_sync"
    /\ exit_status' = IF outcome = "returned" THEN 0 ELSE 1
    /\ pc' = "exited"
    /\ UNCHANGED <<log, chunks, pacing, first_run, waited, shutdown, cycles, now, authVars, entry, outcome,
                   entity, campaign_ids, cids, i, seen_click_ids, total_synced, results,
                   store, requested, last_get, last_upsert, page_rows, page_batch,
                   pagedVars, syncVars>>

\* One cycle and the exit: run_sync.py on a VoluumLiveCollector, or
\* sync_worker --once on a DataCollector.
InitCycle == InitLive \/ InitSync

NextCycle ==
    \/ NextLive
    \/ \E days_back \in {1} : start_run_full_sync(days_back)
    \/ \E n \in 0..MaxUpstream : sync_visits_start(n)
    \/ \E resp \in LiveAuthResponses, get_ok \in BOOLEAN, upsert_ok \in BOOLEAN :
           sync_visits_page(resp, get_ok, upsert_ok)
    \/ sync_visits_finish
    \/ \E n \in 0..MaxUpstream : dc_conversions_start(n)
    \/ \E resp \in LiveAuthResponses, get_ok \in BOOLEAN,
          conversions \in UNION {DcConversionPages(n) : n \in 0..PageLimit},
          upsert_ok \in BOOLEAN :
           dc_conversions_fetch(resp, get_ok, conversions, upsert_ok)
    \/ dc_conversions_finish
    \/ \E cleanup_ok \in BOOLEAN : dc_followups(cleanup_ok)
    \/ process_exit

SpecCycle == InitCycle /\ [][NextCycle]_vars

\* One page of VoluumLiveCollector.sync_conversions on its own: any page of
\* at most MaxConvRows rows, of matching and other campaigns, with and
\* without click id, with timestamps written in the AM/PM and the ISO way.
FilterTimestamps ==
    {[fmt |-> "iso", t |-> 1], [fmt |-> "iso", t |-> 2],
     [fmt |-> "ampm", t |-> 1, pm |-> FALSE]}

FilterRows ==
    {[clickId |-> k, match |-> m, postbackTimestamp |-> t] :
        k \in {NoKey, 1}, m \in BOOLEAN, t \in FilterTimestamps}

FilterPages(n) ==
    {[j \in 1..n |-> [clickId |-> r[j].clickId, match |-> r[j].match,
                      postbackTimestamp |-> r[j].postbackTimestamp, raw |-> j]] :
        r \in [1..n -> FilterRows]}

\* The page is filtered, deduplicated and upserted; being shorter than limit
\* it is the last one, and total_synced is returned.
apply_conversion_page(upsert_ok) ==
    /\ pc = "conv_page_input"
    /\ LET batch == build_conversion_batch(page_rows, {}, <<>>)
       IN /\ page_batch' = batch
          /\ IF batch = <<>>
             THEN /\ last_upsert' = "none"
                  /\ UNCHANGED <<store, total_synced, page_failed>>
             ELSE IF upsert_ok
             THEN /\ last_upsert' = "ok"
                  /\ store' = [store EXCEPT !.conversions = upsert_conversions(@, batch)]
                  /\ total_synced' = total_synced + Len(batch)
                  /\ UNCHANGED page_failed
             ELSE /\ last_upsert' = "fail"
                  /\ page_failed' = TRUE
                  /\ UNCHANGED <<store, total_synced>>
    /\ results' = [results EXCEPT !.conversions = total_synced']
    /\ last_get' = "ok"
    /\ last_page_len' = Len(page_rows)
    /\ pages_requested' = pages_requested + 1
    /\ outcome' = "returned"
    /\ pc' = "done"
    /\ UNCHANGED <<workerVars, now, authVars, entry, entity, campaign_ids, cids, i,
                   seen_click_ids, requested, page_rows, offset, upstream_rows, syncVars>>

InitConvPage ==
    /\ now = 0
    /\ owner = "VoluumLiveCollector"
    /\ InitAuthFields
    /\ InitLiveFields
    /\ entry = "sync_conversions"
    /\ pc = "conv_page_input"
    /\ entity = "conversions"
    /\ campaign_ids = <<>>
    /\ seen_click_ids = {}
    /\ page_rows \in UNION {FilterPages(n) : n \in 0..MaxConvRows}
    /\ InitPagedFields
    /\ InitSyncFields
    /\ InitWorkerFields
    /\ NoCursor

NextConvPage == \E upsert_ok \in BOOLEAN : apply_conversion_page(upsert_ok)

SpecConvPage == InitConvPage /\ [][NextConvPage]_vars

---------------------------------------------------------------------------
(* _parse_timestamp and transform_conversion on their own *)

ParseInputs ==
    {[fmt |-> "ampm", t |-> h, pm |-> p] : h \in 0..13, p \in BOOLEAN}
        \cup {[fmt |-> f, t |-> h] : f \in {"iso", "isoz", "isotz"}, h \in {0, 10, 15}}
        \cup {[fmt |-> f, t |-> 0] : f \in {"other", "empty", "none"}}

TransformRows ==
    {[clickId |-> 1, postbackTimestamp |-> [fmt |-> "iso", t |-> 1], raw |-> 1,
      revenue |-> r, payout |-> p, cost |-> c, profit |-> f] :
        r \in MoneyValues, p \in MoneyValues, c \in MoneyValues, f \in MoneyValues}

\* collector._parse_timestamp(page_rows[1])
apply_parse_timestamp ==
    /\ pc = "parse_input"
    /\ page_batch' = <<parse_timestamp(page_rows[1])>>
    /\ outcome' = "returned"
    /\ pc' = "done"
    /\ UNCHANGED <<workerVars, now, authVars, entry, entity, campaign_ids, cids, i,
                   seen_click_ids, total_synced, results, store, requested, last_get,
                   last_upsert, page_rows, pagedVars, syncVars>>

\* collector.transform_conversion(page_rows[1])
apply_transform_conversion ==
    /\ pc = "transform_input"
    /\ IF transform_conversion_raises(page_rows[1])
       THEN /\ raise_out
            /\ page_batch' = <<>>
       ELSE /\ page_batch' = <<transform_conversion(page_rows[1])>>
            /\ outcome' = "returned"
            /\ pc' = "done"
    /\ UNCHANGED <<workerVars, now, authVars, entry, entity, campaign_ids, cids, i,
                   seen_click_ids, total_synced, results, store, requested, last_get,
                   last_upsert, page_rows, pagedVars, syncVars>>

InitTransform ==
    /\ now = 0
    /\ owner = "VoluumLiveCollector"
    /\ InitAuthFields
    /\ InitLiveFields
    /\ InitPagedFields
    /\ InitSyncFields
    /\ InitWorkerFields
    /\ NoCursor
    /\ entity = "conversions"
    /\ campaign_ids = <<>>
    /\ seen_click_ids = {}
    /\ \/ /\ entry = "_parse_timestamp"
          /\ pc = "parse_input"
          /\ \E ts \in ParseInputs : page_rows = <<ts>>
       \/ /\ entry = "transform_conversion"
          /\ pc = "transform_input"
          /\ \E raw \in TransformRows : page_rows = <<raw>>

NextTransform == apply_parse_timestamp \/ apply_transform_conversion

SpecTransform == InitTransform /\ [][NextTransform]_vars

---------------------------------------------------------------------------
(* The same sync run a second time against unchanged upstream data *)

\* What upstream holds for the window: for DataCollector.sync_conversions
\* rows with and without a conversion timestamp and a visit timestamp, for
\* VoluumLiveCollector.sync_conversions rows of a matching campaign with
\* their timestamp written in three ways, and a row of another campaign.
ResyncDcRows ==
    {[conversionId |-> r.conversionId, clickId |-> r.clickId,
      conversionTimestamp |-> c, visitTimestamp |-> v] :
        r \in DcConversionIds, c \in {NoDate, 0}, v \in {NoDate, 0 - 1}}

ResyncDcPages == UNION {[1..n -> ResyncDcRows] : n \in 0..PageLimit}

ResyncLiveRows ==
    {[clickId |-> 1, match |-> TRUE, postbackTimestamp |-> t] : t \in FilterTimestamps}
        \cup {[clickId |-> 1, match |-> FALSE, postbackTimestamp |-> [fmt |-> "iso", t |-> 1]]}

ResyncLivePages ==
    UNION {{[j \in 1..n |-> [clickId |-> r[j].clickId, match |-> r[j].match,
                             postbackTimestamp |-> r[j].postbackTimestamp, raw |-> j]] :
               r \in [1..n -> ResyncLiveRows]} : n \in 0..(PageLimit + 1)}

\* The page upstream returns at an offset of the result set page_rows.
upstream_page(off) == SubSeq(page_rows, off + 1, off + page_len(off))

\* The explicit window both runs are given: a day that ended a tick before
\* the first run.
ResyncWindow == <<0 - DayTicks - 1, 0 - 1>>

\* The caller runs the sync it has just run, which returned without an
\* error, again with the same arguments.
sync_again ==
    /\ pc = "done"
    /\ cycles = 0
    /\ outcome = "returned"
    /\ ~page_failed
    /\ cycles' = 1
    /\ first_run' = [db |-> db, store |-> store]
    /\ outcome' = "running"
    /\ pc' = IF owner = "VoluumClient" THEN "dc_start" ELSE "conv_start"
    /\ UNCHANGED <<log, chunks, pacing, exit_status, waited, shutdown, now, authVars, entry, entity,
                   campaign_ids, cids, i, seen_click_ids, total_synced, results, store,
                   requested, last_get, last_upsert, page_rows, page_batch, pagedVars,
                   syncVars>>

\* Time passes between the two runs.
resync_wait ==
    /\ pc = "done"
    /\ cycles = 0
    /\ Tick

InitResync ==
    /\ now = 0
    /\ InitAuthFields
    /\ InitLiveFields
    /\ InitPagedFields
    /\ InitSyncFields
    /\ InitWorkerFields
    /\ NoCursor
    /\ seen_click_ids = {}
    /\ campaign_ids = <<>>
    /\ \/ /\ owner = "VoluumClient"
          /\ entry = "none"
          /\ pc = "idle"
          /\ entity = "visits"
          /\ page_rows \in ResyncDcPages
       \/ /\ owner = "VoluumLiveCollector"
          /\ entry = "sync_conversions"
          /\ pc = "conv_start"
          /\ entity = "conversions"
          /\ page_rows \in ResyncLivePages

NextResync ==
    \/ \E sync_type \in SyncTypes : start_sync(sync_type, ResyncWindow[1], ResyncWindow[2])
    \/ \E n \in 0..MaxUpstream : (cycles = 0 \/ n = upstream_rows) /\ sync_visits_start(n)
    \/ \E resp \in LiveAuthResponses, get_ok \in BOOLEAN, upsert_ok \in BOOLEAN :
           sync_visits_page(resp, get_ok, upsert_ok)
    \/ sync_visits_finish
    \/ dc_conversions_start(Len(page_rows))
    \/ \E resp \in LiveAuthResponses, get_ok \in BOOLEAN, upsert_ok \in BOOLEAN :
           dc_conversions_fetch(resp, get_ok, page_rows, upsert_ok)
    \/ dc_conversions_finish
    \/ conv_start(Len(page_rows))
    \/ \E resp \in LiveAuthResponses, get_ok \in BOOLEAN, upsert_ok \in BOOLEAN :
           conv_page(resp, get_ok, upstream_page(offset), upsert_ok)
    \/ conv_return
    \/ sync_again
    \/ resync_wait

SpecResync == InitResync /\ [][NextResync]_vars

---------------------------------------------------------------------------
(* The continuous workers: worker.py main and sync_worker.py run_continuous *)

loop_continues_always == TRUE

\* while not shutdown_event.is_set()
loop_continues == ~shutdown

\* The test of the while loop: a cycle is admitted, or the worker stops.
worker_loop ==
    /\ pc = "w_head"
    /\ IF loop_continues
       THEN /\ cycles < MaxCycles
            /\ cycles' = cycles + 1
            /\ pc' = "w_cycle"
       ELSE /\ pc' = "stopped"
            /\ UNCHANGED cycles
    /\ UNCHANGED <<log, chunks, pacing, exit_status, waited, first_run, shutdown, now, authVars, entry, outcome,
                   entity, campaign_ids, cids, i, seen_click_ids, total_synced, results,
                   store, requested, last_get, last_upsert, page_rows, page_batch,
                   pagedVars, syncVars>>

\* run_sync_cycle up to its first request: worker.py builds a new
\* VoluumLiveCollector, run_continuous calls run_full_sync(days_back=1) on
\* the DataCollector it was given.
worker_run_sync_cycle ==
    /\ pc = "w_cycle"
    /\ entry' = "run_full_sync"
    /\ outcome' = "running"
    /\ entity' = "visits"
    /\ auth_failed' = FALSE
    /\ log' = <<>>
    /\ IF owner = "VoluumLiveCollector"
       THEN /\ token' = NoToken
            /\ token_expires' = NoExpiry
            /\ campaign_ids' = <<>>
            /\ results' = [visits |-> 0, clicks |-> 0, conversions |-> 0]
            /\ pc' = "full_sync"
            /\ UNCHANGED <<caller, arg_from, arg_to>>
       ELSE /\ caller' = "run_full_sync"
            /\ arg_from' = now - DayTicks
            /\ arg_to' = NoDate
            /\ pc' = "dc_start"
            /\ UNCHANGED <<token, token_expires, campaign_ids, results>>
    /\ UNCHANGED <<otherVars, now, owner, exchanges, last_auth, last_ret, issued, cids, i,
                   seen_click_ids, total_synced, store, requested, last_get, last_upsert,
                   page_rows, page_batch, pagedVars, from_date, to_date, sync_state, db,
                   days, start_day, call>>

\* run_sync_cycle returns True or False; worker.py then looks at the daily email.
worker_cycle_end ==
    /\ pc = "done"
    /\ pc' = "w_wait"
    /\ UNCHANGED <<workerVars, now, authVars, entry, outcome, entity, campaign_ids, cids, i,
                   seen_click_ids, total_synced, results, store, requested, last_get,
                   last_upsert, page_rows, page_batch, pagedVars, syncVars>>

wait_for_times_out == "timeout"

\* asyncio.wait_for(shutdown_event.wait(), timeout=...): wait() is over as
\* soon as the event is set; TimeoutError when it was not set in the interval.
wait_for == IF shutdown THEN "event" ELSE "timeout"

\* The wait between cycles comes back; "except asyncio.TimeoutError: pass".
worker_wait ==
    /\ pc = "w_wait"
    /\ waited' = wait_for
    /\ pc' = "w_head"
    /\ UNCHANGED <<log, chunks, pacing, exit_status, first_run, shutdown, cycles, now, authVars,
                   entry, outcome, entity, campaign_ids, cids, i, seen_click_ids,
                   total_synced, results, store, requested, last_get, last_upsert,
                   page_rows, page_batch, pagedVars, syncVars>>

\* SIGINT / SIGTERM at any moment: shutdown_event.set()
signal_handler ==
    /\ pc # "stopped"
    /\ shutdown' = TRUE
    /\ UNCHANGED <<log, chunks, pacing, exit_status, waited, first_run, cycles, now, authVars, liveVars,
                   pagedVars, syncVars>>

\* During a worker cycle upstream holds no campaign or one, and no row or one.
WorkerLists == {<<>>, <<1>>}

WorkerUpstream == {0, 1}

InitWorker ==
    /\ now = 0
    /\ owner \in {"VoluumLiveCollector", "VoluumClient"}
    /\ InitAuthFields
    /\ InitLiveFields
    /\ NoReport
    /\ InitPagedFields
    /\ InitSyncFields
    /\ InitWorkerFields
    /\ NoCursor
    /\ entry = "worker"
    /\ pc = "w_head"
    /\ entity = "visits"
    /\ campaign_ids = <<>>

\* The worker is followed over less than a tick of the clock.
NextWorker ==
    \/ worker_loop
    \/ worker_run_sync_cycle
    \/ \E resp \in LiveAuthResponses, get_ok \in BOOLEAN, found \in WorkerLists :
           full_sync_discover(resp, get_ok, found)
    \/ \E resp \in LiveAuthResponses, get_ok \in BOOLEAN, found \in WorkerLists :
           sync_live_start(resp, get_ok, found)
    \/ \E resp \in LiveAuthResponses, get_ok \in BOOLEAN, rows \in PacedReports,
          upsert_ok \in BOOLEAN :
           sync_live_iter(resp, get_ok, rows, upsert_ok)
    \/ sync_live_return
    \/ \E n \in WorkerUpstream : conv_start(n)
    \/ \E resp \in LiveAuthResponses, get_ok \in BOOLEAN,
          rows \in UNION {ConversionPages(n) : n \in WorkerUpstream},
          upsert_ok \in BOOLEAN :
           conv_page(resp, get_ok, rows, upsert_ok)
    \/ conv_return
    \/ \E n \in WorkerUpstream : sync_visits_start(n)
    \/ \E resp \in LiveAuthResponses, get_ok \in BOOLEAN, upsert_ok \in BOOLEAN :
           sync_visits_page(resp, get_ok, upsert_ok)
    \/ sync_visits_finish
    \/ \E n \in WorkerUpstream : dc_conversions_start(n)
    \/ \E resp \in LiveAuthResponses, get_ok \in BOOLEAN,
          conversions \in UNION {DcConversionPages(n) : n \in WorkerUpstream},
          upsert_ok \in BOOLEAN :
           dc_conversions_fetch(resp, get_ok, conversions, upsert_ok)
    \/ dc_conversions_finish
    \/ \E cleanup_ok \in BOOLEAN : dc_followups(cleanup_ok)
    \/ worker_cycle_end
    \/ worker_wait
    \/ signal_handler

SpecWorker == InitWorker /\ [][NextWorker]_vars

\* Every await of a cycle comes back, and so does the wait between cycles.
SpecWorkerFair == SpecWorker /\ WF_vars(NextWorker)

\* sync_worker --backfill DAYS on a DataCollector, against an upstream that
\* holds at most MaxBackfillRows rows for a chunk.
BackfillPages == UNION {DcConversionPages(n) : n \in 0..MaxBackfillRows}

NextBackfill ==
    \/ \E d \in 1..MaxChunkedDays : start_run_backfill(d)
    \/ backfill_chunk
    \/ backfill_sleep
    \/ \E n \in 0..MaxBackfillRows : sync_visits_start(n)
    \/ \E resp \in LiveAuthResponses, get_ok \in BOOLEAN, upsert_ok \in BOOLEAN :
           sync_visits_page(resp, get_ok, upsert_ok)
    \/ sync_visits_finish
    \/ \E n \in 0..MaxBackfillRows : dc_conversions_start(n)
    \/ \E resp \in LiveAuthResponses, get_ok \in BOOLEAN, conversions \in BackfillPages,
          upsert_ok \in BOOLEAN :
           dc_conversions_fetch(resp, get_ok, conversions, upsert_ok)
    \/ dc_conversions_finish
    \/ TokenRunsOut

SpecBackfill == InitSync /\ [][NextBackfill]_vars

\* Every await of run_backfill comes back.
SpecBackfillFair == SpecBackfill /\ WF_vars(NextBackfill)

\* One call of a paged sync on a fresh object: DataCollector.sync_visits,
\* DataCollector.sync_conversions or VoluumLiveCollector.sync_conversions.
InitPaged ==
    /\ now = 0
    /\ InitAuthFields
    /\ InitLiveFields
    /\ NoReport
    /\ InitPagedFields
    /\ InitSyncFields
    /\ InitWorkerFields
    /\ campaign_ids = <<>>
    /\ \/ /\ owner = "VoluumLiveCollector"
          /\ entry = "live_sync_conversions"
          /\ entity = "conversions"
          /\ pc = "conv_start"
          /\ NoCursor
       \/ /\ owner = "VoluumClient"
          /\ entity \in SyncTypes
          /\ entry = entity
          /\ pc = "dc_start"
          /\ \E row \in CursorRows : sync_state = [e \in SyncTypes |-> row]

NextPaged ==
    \/ \E n \in 0..MaxUpstream : conv_start(n)
    \/ \E resp \in LiveAuthResponses, get_ok \in BOOLEAN,
          rows \in UNION {ConversionPages(n) : n \in 0..PageLimit}, upsert_ok \in BOOLEAN :
           conv_page(resp, get_ok, rows, upsert_ok)
    \/ conv_return
    \/ \E n \in 0..MaxUpstream : sync_visits_start(n)
    \/ \E resp \in LiveAuthResponses, get_ok \in BOOLEAN, upsert_ok \in BOOLEAN :
           sync_visits_page(resp, get_ok, upsert_ok)
    \/ sync_visits_finish
    \/ \E n \in 0..MaxUpstream : dc_conversions_start(n)
    \/ \E resp \in LiveAuthResponses, get_ok \in BOOLEAN,
          conversions \in UNION {DcConversionPages(n) : n \in 0..PageLimit},
          upsert_ok \in BOOLEAN :
           dc_conversions_fetch(resp, get_ok, conversions, upsert_ok)
    \/ dc_conversions_finish
    \/ TokenRunsOut

SpecPaged == InitPaged /\ [][NextPaged]_vars

\* The call is awaited to its end: while a step of it can be taken, one is.
SpecPagedFair == SpecPaged /\ WF_vars(NextPaged)

---------------------------------------------------------------------------
(* Properties *)

CachedAndFresh ==
    token # NoToken /\ token_expires # NoExpiry /\ now < token_expires

\* C1: a get_token call made while a token is cached and now < expires_at
\* returns the cached token and issues no credential exchange; an exchange is
\* issued exactly by the calls made with no token cached or with
\* now >= expires_at, and by no other step.
C1_TokenCaching ==
    [][ /\ (now' = now /\ CachedAndFresh) =>
              (exchanges' = exchanges /\ last_auth' = "cached" /\ last_ret' = token
               /\ token' = token /\ token_expires' = token_expires)
        /\ (now' = now /\ ~CachedAndFresh) =>
              (exchanges' = exchanges + 1 /\ last_auth' \in {"exchanged", "failed"})
        /\ now' # now => exchanges' = exchanges ]_vars

\* Two calls were made, the second inside the validity window of the first's
\* token: one exchange in all.
C1_Witness ==
    exchanges = 1 /\ last_auth = "cached" /\ last_ret = token /\ now > 0

\* C2: a call whose exchange fails leaves token and expiry as they were; a
\* successful exchange sets the token of the response and the expiry
\* now + TTL in the same step; nothing else changes either field.
C2_SessionWholesale ==
    [][ /\ (exchanges' # exchanges /\ last_auth' = "failed") =>
              (token' = token /\ token_expires' = token_expires)
        /\ (exchanges' # exchanges /\ last_auth' = "exchanged") =>
              (token' = issued'.token /\ token_expires' = now + TOKEN_TTL /\ issued'.at = now)
        /\ (token' # token \/ token_expires' # token_expires) =>
              (exchanges' # exchanges /\ last_auth' = "exchanged") ]_vars

\* A stale session was refreshed after a failed attempt left it untouched.
C2_Witness ==
    /\ last_auth = "exchanged" /\ exchanges >= 3
    /\ token # NoToken /\ token_expires = now + TOKEN_TTL /\ now >= TOKEN_TTL

\* C3: once a credential exchange has failed during a run_full_sync cycle,
\* the cycle has ended by raising to its caller: no step of the cycle (and so
\* no further exchange or upstream request) follows the failure.
C3_AuthFailureFatal ==
    auth_failed => (pc = "done" /\ outcome = "raised")

FinishPcs == {"dc_visits_finish", "dc_conv_finish"}

\* The first fetch of the sync call came back with no rows.
NoRowsFetched ==
    /\ call.status # "none"
    /\ pages_requested = 1
    /\ last_get = "ok"
    /\ last_page_len = 0

\* C4: a sync_visits / sync_conversions call whose fetch returns no rows does
\* not raise and performs no upsert; it goes on to the cursor write, and once
\* it has returned the cursor row of its sync type holds the call's to_date
\* and a synced count of 0.
C4_EmptyWindowAdvances ==
    NoRowsFetched =>
        /\ call.upserts = 0
        /\ call.status \in {"running", "returned"}
        /\ call.status = "running" => pc \in FinishPcs
        /\ call.status = "returned" =>
              sync_state[call.sync_type] =
                  [present |-> TRUE, last_sync_timestamp |-> to_date, records_synced |-> 0]

\* sync_visits found nothing upstream, returned, and moved a cursor that
\* earlier stood elsewhere.
C4_Witness ==
    /\ NoRowsFetched
    /\ call.sync_type = "visits"
    /\ call.status = "returned"
    /\ call.before.present
    /\ call.before.last_sync_timestamp < to_date
    /\ sync_state.visits.last_sync_timestamp = to_date
    /\ sync_state.visits.records_synced = 0

\* Every row upstream holds for the window of the sync_visits call, as the
\* visits table keys it.
AllPagesApplied ==
    {<<c, hour_str(from_date), PageLimit * ((c - 1) \div PageLimit)>> :
        c \in 1..upstream_rows} \subseteq db.visits

\* C5: the cursor of a sync type is written only by the step that follows
\* the call's last page, after every page was fetched and upserted, and at
\* that point it takes the call's to_date and total; a call that is running
\* or that raised (a fetch or an upsert of a page failed) has written nothing
\* and left the cursor row as it found it; a call that returned wrote once.
C5_CursorAfterAllPages ==
    [][ /\ sync_state' # sync_state =>
              /\ pc \in FinishPcs
              /\ ~page_failed /\ last_get = "ok" /\ last_upsert # "fail"
              /\ last_page_len < PageLimit \/ call.sync_type = "conversions"
              /\ call.sync_type = "visits" => AllPagesApplied
              /\ call.writes = 0 /\ call'.writes = 1
              /\ call'.status = "returned"
              /\ sync_state'[call.sync_type].last_sync_timestamp = to_date
              /\ sync_state'[call.sync_type].records_synced = total_synced
              /\ \A e \in SyncTypes \ {call.sync_type} : sync_state'[e] = sync_state[e]
        /\ call'.status \in {"running", "raised"} =>
              (call'.writes = 0 /\ sync_state'[call'.sync_type] = call'.before)
        /\ call'.status = "raised" => page_failed'
        /\ call'.status = "returned" => call'.writes = 1 ]_vars

\* A sync_visits call of more than one page returned: its cursor was written
\* after the last of them.
C5_Witness ==
    /\ call.sync_type = "visits"
    /\ call.status = "returned"
    /\ call.writes = 1
    /\ call.upserts >= 2
    /\ offset > 0
    /\ sync_state.visits.last_sync_timestamp = to_date
    /\ sync_state.visits.records_synced = upstream_rows
    /\ upstream_rows > PageLimit

\* C6: every write to the cursor of a sync type stores a watermark greater
\* than or equal to the one stored before it.
C6_WatermarkMonotone ==
    [][ \A e \in SyncTypes :
          (sync_state[e].present /\ sync_state'[e].present) =>
              sync_state'[e].last_sync_timestamp >= sync_state[e].last_sync_timestamp ]_vars

\* C7: in sync_visits and in VoluumLiveCollector.sync_conversions a page is
\* fetched only as the first of the call or right after a full page that was
\* fetched and applied, so a page shorter than the page size is the last one
\* fetched; the fetches of a call never exceed the full pages upstream holds
\* plus one, the loop has ended once a short page was taken, and every call
\* comes to its end.
C7_PaginationTermination ==
    /\ <>(pc = "done")
    /\ [][ /\ pages_requested' = pages_requested + 1 =>
                 \/ pages_requested = 0
                 \/ last_get = "ok" /\ last_upsert # "fail" /\ last_page_len = PageLimit
           /\ pages_requested' <= (upstream_rows' \div PageLimit) + 1
           /\ (pages_requested' = pages_requested + 1 /\ last_get' = "ok"
                   /\ last_page_len' < PageLimit) =>
                 pc' \notin {"conv_loop", "dc_visits_loop"}
           /\ (pages_requested' = pages_requested + 1 /\ last_get' = "ok"
                   /\ last_upsert' = "ok") =>
                 total_synced' > total_synced ]_vars

\* A call fetched a full page and a short one, applied the short one and
\* stopped there.
C7_Witness ==
    /\ entry \in {"visits", "live_sync_conversions"}
    /\ pc = "done"
    /\ outcome = "returned"
    /\ upstream_rows > PageLimit
    /\ pages_requested = 2
    /\ last_page_len > 0 /\ last_page_len < PageLimit
    /\ last_upsert = "ok"

\* C8: a paged sync one of whose pages failed to be fetched or upserted does
\* not end by returning to its caller.
C8_FailureExplicit ==
    page_failed => ~(pc = "done" /\ outcome = "returned")

KeptIndices ==
    {j \in 1..Len(page_rows) :
        /\ page_rows[j].clickId # NoKey
        /\ page_rows[j].clickId \notin seen_click_ids
        /\ \A h \in 1..(j - 1) : page_rows[h].clickId # page_rows[j].clickId}

\* C10: the batch built from a report holds exactly the first row of each
\* click id that was not seen before, in the order of the report, whatever
\* the later rows of that id carry; no id is in it twice, and the ids it
\* holds are marked seen.
C10_DedupKeepsFirst ==
    [][ pc' = "batch_built" =>
          /\ Len(page_batch') = Cardinality(KeptIndices)
          /\ \A j \in KeptIndices :
                page_batch'[Cardinality({h \in KeptIndices : h <= j})] =
                    [click_id |-> page_rows[j].clickId, raw_data |-> page_rows[j].raw]
          /\ \A a, b \in 1..Len(page_batch') :
                page_batch'[a].click_id = page_batch'[b].click_id => a = b
          /\ seen_click_ids' =
                seen_click_ids \cup {page_rows[j].clickId : j \in KeptIndices} ]_vars

\* Three rows of one click id, each with its own payload, gave one record:
\* that of the first row.
C10_Witness ==
    /\ pc = "batch_built"
    /\ Len(page_rows) = 3
    /\ \A j \in 1..3 : page_rows[j].clickId = 1
    /\ Len(page_batch) = 1
    /\ page_batch[1] = [click_id |-> 1, raw_data |-> 1]

\* run_full_sync's sequence of syncs and follow-ups
SyncOrder ==
    IF owner = "VoluumLiveCollector"
    THEN <<"visits", "clicks", "conversions">>
    ELSE <<"visits", "conversions", "aggregate", "cleanup">>

InsideSync ==
    pc \in {"sync_loop", "conv_loop", "conv_return", "dc_visits_loop", "dc_visits_finish",
            "dc_conv_fetch", "dc_conv_finish"}

\* C11: in a run_full_sync cycle the syncs are started in the fixed order
\* (visits, clicks, conversions; for the DataCollector visits, conversions
\* and the follow-ups), each only after the one before it has ended, so that
\* at most one is in progress; the sync in progress is the last one started.
C11_SequentialOrder ==
    /\ Len(log) <= 2 * Len(SyncOrder)
    /\ \A k \in 1..Len(log) :
          /\ log[k].sync = SyncOrder[(k + 1) \div 2]
          /\ log[k].ev = IF k % 2 = 1 THEN "start" ELSE "end"
    /\ InsideSync <=> Len(log) % 2 = 1
    /\ InsideSync => log[Len(log)].sync = entity

\* A VoluumLiveCollector cycle ran its three syncs one after the other.
C11_Witness ==
    /\ owner = "VoluumLiveCollector"
    /\ pc = "done"
    /\ Len(log) = 6
    /\ log[2] = ended("visits", "returned")
    /\ log[3].sync = "clicks"
    /\ log[5].sync = "conversions"
    /\ results.visits > 0

\* C12: a sync that raised inside run_full_sync is the last thing the cycle
\* did: the exception is the outcome of run_full_sync, and no later sync or
\* follow-up is started; in the DataCollector cycle every failed fetch or
\* upsert of a sync raises this way.
C12_FailureAbortsSequence ==
    [][ /\ \A k \in 1..Len(log') :
              (log'[k].ev = "end" /\ log'[k].how = "raised") =>
                  (k = Len(log') /\ outcome' = "raised" /\ pc' \in {"done", "exited"})
        /\ (owner = "VoluumClient" /\ page_failed') =>
              (outcome' = "raised" /\ log'[Len(log')].ev = "end"
                 /\ log'[Len(log')].how = "raised")
        /\ outcome = "raised" =>
              (log' = log /\ results' = results /\ db' = db /\ store' = store
                 /\ sync_state' = sync_state /\ exchanges' = exchanges
                 /\ pc' \in {pc, "exited"}) ]_vars

\* The visits sync of a DataCollector cycle raised: the conversions sync and
\* the follow-ups were never started, and the process saw the failure.
C12_Witness ==
    /\ owner = "VoluumClient"
    /\ log = <<started("visits", 0 - DayTicks, NoDate), ended("visits", "raised")>>
    /\ outcome = "raised"
    /\ pc = "exited"
    /\ exit_status = 1

\* C13: the one-shot process exits 0 only when the cycle met no credential
\* exchange failure and no failed page of a paged sync.
C13_ExitStatusSignalsFailure ==
    exit_status = 0 => ~(auth_failed \/ page_failed)

\* The chunks run_backfill has taken so far, as day offsets back from now.
ChunkCount(d) == (d + chunk_size - 1) \div chunk_size

BackfillOver == caller = "run_backfill" /\ pc = "done"

\* C14: a backfill of `days` days is cut into consecutive day-offset chunks
\* [start_day, end_day), each at most seven days wide, the first starting at
\* offset 0 and each next one starting where the previous one ended; when the
\* backfill is over there are ceil(days / 7) chunks and the last one ends at
\* `days`, so their union is exactly [0, days).
C14_BackfillPartition ==
    /\ \A k \in 1..Len(chunks) :
          /\ chunks[k][1] = IF k = 1 THEN 0 ELSE chunks[k - 1][2]
          /\ chunks[k][1] < chunks[k][2]
          /\ chunks[k][2] - chunks[k][1] <= 7
          /\ chunks[k][2] <= days
    /\ Len(chunks) <= ChunkCount(days)
    /\ BackfillOver => /\ Len(chunks) = ChunkCount(days)
                       /\ chunks[Len(chunks)][2] = days

C14_Witness ==
    /\ BackfillOver
    /\ days = 15
    /\ chunks = <<(<<0, 7>>), (<<7, 14>>), (<<14, 15>>)>>

\* C15: a chunk whose sync raises does not stop the backfill: the run goes on
\* with the next older chunk, no chunk is taken twice, and every backfill that
\* was started ends, returning normally, with all of its chunks attempted.
C15_BackfillSurvivesFailures ==
    /\ [][ /\ (caller = "run_backfill" /\ call'.status = "raised" /\ call.status # "raised")
               => (pc' = "bf_chunk" /\ outcome' = "running" /\ start_day' = start_day + 7
                   /\ chunks' = chunks)
           /\ chunks' # chunks
               => (/\ Len(chunks') = Len(chunks) + 1
                   /\ \A k \in 1..Len(chunks) : chunks'[k] = chunks[k]
                   /\ \A k \in 1..Len(chunks) : chunks[k][1] < chunks'[Len(chunks')][1]) ]_vars
    /\ (caller = "run_backfill")
          ~> (pc = "done" /\ outcome = "returned" /\ Len(chunks) = ChunkCount(days))

C15_Witness ==
    /\ caller = "run_backfill"
    /\ Len(chunks) = 2
    /\ pc = "dc_start"
    /\ entity = "visits"
    /\ call.status = "raised"

StartsOf(e) == {k \in 1..Len(log) : log[k].ev = "start" /\ log[k].sync = e}

ChunkFinished == caller = "run_backfill" /\ Len(chunks) > 0 /\ pc \in {"bf_chunk", "bf_sleep", "done"}

\* C16: within one chunk of a backfill, the visit sync is invoked exactly once
\* and first, with the chunk's from/to window; the conversion sync is invoked
\* with the same window exactly once when the visit sync returned and not at
\* all when it raised; no sync is invoked twice for a chunk.
C16_ChunkSyncsOncePerEntity ==
    (caller = "run_backfill" /\ Len(chunks) > 0) =>
        LET c == chunks[Len(chunks)]
        IN /\ arg_from # NoDate
           /\ arg_to - arg_from = (c[2] - c[1]) * DayTicks
           /\ \A k \in 1..Len(log) :
                 log[k].ev = "start" => (log[k].from = arg_from /\ log[k].to = arg_to)
           /\ Cardinality(StartsOf("visits")) <= 1
           /\ Cardinality(StartsOf("conversions")) <= 1
           /\ StartsOf("aggregate") = {} /\ StartsOf("cleanup") = {}
           /\ StartsOf("conversions") # {}
                 => (Len(log) >= 3 /\ log[1].sync = "visits" /\ log[1].ev = "start"
                     /\ log[2] = ended("visits", "returned") /\ StartsOf("conversions") = {3})
           /\ ChunkFinished
                 => /\ StartsOf("visits") = {1}
                    /\ StartsOf("conversions") = {} <=> log[2] = ended("visits", "raised")

C16_Witness ==
    /\ caller = "run_backfill"
    /\ pc = "bf_sleep"
    /\ Len(chunks) = 2
    /\ log = <<started("visits", arg_from, arg_to), ended("visits", "returned"),
               started("conversions", arg_from, arg_to), ended("conversions", "returned")>>

\* C16 as stated: when a chunk is finished, the sync of every entity (visits
\* and conversions) has been invoked for it, never zero times.
C16_EveryEntityEveryChunk ==
    ChunkFinished => (StartsOf("visits") # {} /\ StartsOf("conversions") # {})

\* C17: whenever run_backfill goes from one chunk to a next chunk that it will
\* still process, it has slept the fixed delay first, whether the chunk it
\* leaves succeeded or failed.
C17_DelayBetweenChunks ==
    [][ (pc' = "bf_chunk" /\ pc # "bf_chunk" /\ Len(chunks) > 0 /\ start_day' < days)
            => pc = "bf_sleep" ]_vars

\* C18: within one sync_live_visits or sync_live_clicks, never more than 10
\* per-campaign requests are issued in a row without a pause, and the pauses
\* taken depend on the position in the campaign list alone: after the request
\* of campaign number i (counted from 1) there have been (i - 1) div 10
\* pauses, whatever campaigns failed or returned no rows.
C18_CampaignPacing ==
    /\ pacing.run <= 10
    /\ pc = "sync_loop" =>
          /\ Len(requested) = i
          /\ i > 0 => pacing.pauses = (i - 1) \div 10
          /\ i > 0 => pacing.run = ((i - 1) % 10) + 1

C18_Witness ==
    /\ pc = "sync_loop"
    /\ Len(cids) = 21
    /\ i = 21
    /\ pacing = [pauses |-> 2, run |-> 1]
    /\ last_get = "fail"

InCycle == pc \notin {"w_head", "w_wait", "stopped"}

\* C19: in the continuous workers the shutdown signal is looked at by the
\* test of the while loop alone. The signal changes nothing but the event; a
\* cycle that the loop has admitted leaves only through its own end, also
\* when the signal is set meanwhile, and does reach that end; once the signal
\* is set the loop admits no further cycle, and the worker stops at the loop
\* test, never inside a cycle.
C19_ShutdownBetweenCycles ==
    /\ [][ /\ shutdown => (shutdown' /\ cycles' = cycles)
           /\ shutdown' # shutdown
                 => UNCHANGED <<now, authVars, liveVars, pagedVars, syncVars, log, chunks,
                                pacing, exit_status, waited, first_run, cycles>>
           /\ (pc' = "stopped" /\ pc # "stopped") => (pc = "w_head" /\ shutdown)
           /\ (InCycle /\ ~InCycle') => (pc = "done" /\ pc' = "w_wait") ]_vars
    /\ InCycle ~> (pc = "w_wait")
    /\ (shutdown /\ ~InCycle) ~> (pc = "stopped")

C19_Witness ==
    /\ shutdown
    /\ cycles = 2
    /\ pc \in {"conv_loop", "dc_conv_fetch"}

\* The rows of the page that are of a matching campaign, carry a click id,
\* and are the first matching row with their clickId and postbackTimestamp.
KeptConversions ==
    {j \in 1..Len(page_rows) :
        /\ page_rows[j].match
        /\ page_rows[j].clickId # NoKey
        /\ \A k \in 1..(j - 1) :
              ~(/\ page_rows[k].match
                /\ page_rows[k].clickId = page_rows[j].clickId
                /\ page_rows[k].postbackTimestamp = page_rows[j].postbackTimestamp)}

StoredConversions == {store.conversions[k] : k \in ConversionKeys} \ {0}

\* C20: the batch VoluumLiveCollector.sync_conversions upserts for a page is,
\* in page order, exactly the rows whose campaign name contains the filter,
\* that carry a click id, one per clickId and postbackTimestamp; the count
\* returned is the number of these rows when the upsert went through; a row
\* of another campaign is in no batch, is never stored and is never counted.
C20_CampaignFilteredConversions ==
    (entry = "sync_conversions" /\ pc = "done") =>
        /\ Len(page_batch) = Cardinality(KeptConversions)
        /\ \A b \in 1..Len(page_batch) :
              /\ page_batch[b].raw_data \in KeptConversions
              /\ page_batch[b].click_id = page_rows[page_batch[b].raw_data].clickId
              /\ \A c \in 1..(b - 1) : page_batch[c].raw_data < page_batch[b].raw_data
        /\ StoredConversions \subseteq KeptConversions
        /\ last_upsert = "ok"
              => /\ results.conversions = Cardinality(KeptConversions)
                 /\ \A j \in KeptConversions :
                       \E j2 \in KeptConversions :
                          /\ page_rows[j2].clickId = page_rows[j].clickId
                          /\ parse_timestamp(page_rows[j2].postbackTimestamp)
                                = parse_timestamp(page_rows[j].postbackTimestamp)
                          /\ store.conversions[<<page_rows[j].clickId,
                                  parse_timestamp(page_rows[j].postbackTimestamp)>>] = j2
        /\ last_upsert # "ok" => (results.conversions = 0 /\ StoredConversions = {})

\* Three conversions of which two are of a matching campaign: two are upserted.
C20_Witness ==
    /\ entry = "sync_conversions"
    /\ pc = "done"
    /\ Len(page_rows) = 3
    /\ page_rows[1].match /\ ~page_rows[2].match /\ page_rows[3].match
    /\ page_rows[2].clickId # NoKey
    /\ Len(page_batch) = 2
    /\ results.conversions = 2
    /\ StoredConversions = {1, 3}

\* C21: when a sync that returned without an error is run again with the same
\* arguments against the same upstream data and returns without an error
\* again, the destination tables are exactly as the first run left them.
C21_ResyncIdempotent ==
    (cycles = 1 /\ pc = "done" /\ outcome = "returned" /\ ~page_failed) =>
        (db = first_run.db /\ store = first_run.store)

\* C22: transform_conversion returns for every raw conversion record, and
\* gives revenue, payout, cost and profit the upstream amount when the field
\* holds a number (or a string that reads as one) and 0 when it is absent,
\* null or not a number.
C22_MonetaryCoercionNeverFails ==
    (entry = "transform_conversion" /\ pc = "done") =>
        /\ outcome = "returned"
        /\ Len(page_batch) = 1
        /\ \A f \in MoneyFields :
              page_batch[1][f] = IF page_rows[1][f].kind \in {"number", "numstr"}
                                 THEN page_rows[1][f].v ELSE 0

\* C23: _parse_timestamp never raises; an AM/PM value with an hour of the
\* 12-hour clock comes back in the ISO form with the hour of the 24-hour
\* clock (12 AM -> 0, 12 PM -> 12, h PM -> h + 12, h AM -> h); an empty or
\* missing value comes back as None; what cannot be parsed comes back as it
\* was.
C23_TimestampParsing ==
    (entry = "_parse_timestamp" /\ pc = "done") =>
        LET ts == page_rows[1]
            out == page_batch[1]
        IN /\ outcome = "returned"
           /\ (ts.fmt = "ampm" /\ ts.t \in 1..12) =>
                 /\ out.fmt = "iso"
                 /\ (ts.t = 12 /\ ~ts.pm) => out.t = 0
                 /\ (ts.t = 12 /\ ts.pm) => out.t = 12
                 /\ (ts.t \in 1..11 /\ ts.pm) => out.t = ts.t + 12
                 /\ (ts.t \in 1..11 /\ ~ts.pm) => out.t = ts.t
           /\ ts.fmt \in {"empty", "none"} => out = NoTimestamp
           /\ (ts.fmt = "other" \/ (ts.fmt = "ampm" /\ ts.t \notin 1..12)) => out = ts

C23_Witness ==
    /\ entry = "_parse_timestamp"
    /\ pc = "done"
    /\ page_rows = <<[fmt |-> "ampm", t |-> 12, pm |-> FALSE]>>
    /\ page_batch = <<[fmt |-> "iso", t |-> 0]>>

\* C24: after a DataCollector.sync_visits or sync_conversions call that
\* returned, the watermark it wrote does not lie beyond the upper bound of the
\* window it requested from upstream, and every row upstream holds for that
\* window was fetched.
C24_WatermarkIsBoundary ==
    (call.status = "returned" /\ call.sync_type = entity
        /\ pc \in {"done", "dc_followups", "bf_sleep"}) =>
        /\ sync_state[entity].last_sync_timestamp <= hour_str(to_date)
        /\ offset + last_page_len = upstream_rows

\* C25: in DataCollector.sync_visits, DataCollector.sync_conversions and
\* VoluumLiveCollector.sync_conversions the k-th fetch of a call asks for
\* offset (k - 1) * page size, and a fetch that brought a full page which was
\* then applied is followed by a further pass of the loop at offset + page
\* size.
C25_FullPagesContinue ==
    [][ pages_requested' = pages_requested + 1 =>
          /\ offset = pages_requested * PageLimit
          /\ (last_get' = "ok" /\ last_upsert' # "fail" /\ last_page_len' = PageLimit) =>
                /\ pc' \in {"conv_loop", "dc_visits_loop"}
                /\ offset' = offset + PageLimit ]_vars


\* C26: the batch VoluumLiveCollector.sync_conversions hands to the upsert
\* holds no two records with the same click_id and the same postback_timestamp
\* as stored, that is after _parse_timestamp.
C26_OneRecordPerConflictKey ==
    (entry = "sync_conversions" /\ pc = "done") =>
        \A a \in 1..Len(page_batch) : \A b \in 1..Len(page_batch) :
           (a # b) => \/ page_batch[a].click_id # page_batch[b].click_id
                      \/ page_batch[a].postback_timestamp # page_batch[b].postback_timestamp

\* The conversions sync of a DataCollector.run_full_sync cycle raised.
ConversionsFailedInCycle ==
    /\ owner = "VoluumClient"
    /\ caller = "run_full_sync"
    /\ entity = "conversions"
    /\ call.sync_type = "conversions"
    /\ call.status = "raised"
    /\ outcome = "raised"

\* C27: when sync_conversions raises inside DataCollector.run_full_sync, after
\* sync_visits has returned, the visits cursor holds the watermark and the
\* count the visits sync wrote, no step of the conversions sync touches the
\* visits cursor or the visits rows, the failing step leaves every table as it
\* was, and the conversions cursor is the row it was before the cycle.
C27_PartialProgressPreserved ==
    /\ \A row \in CursorRows :
          (sync_state.conversions = row) =>
              [](ConversionsFailedInCycle => sync_state.conversions = row)
    /\ [](ConversionsFailedInCycle =>
              /\ sync_state.visits.present
              /\ sync_state.visits.records_synced = results.visits
              /\ sync_state.visits.last_sync_timestamp \in 0..to_date
              /\ Cardinality(db.visits) = results.visits)
    /\ [][ (caller = "run_full_sync" /\ entity = "conversions") =>
              /\ sync_state'.visits = sync_state.visits
              /\ db'.visits = db.visits
              /\ results'.visits = results.visits
              /\ outcome' = "raised" => db' = db ]_vars

\* A cycle whose visits sync brought rows and whose conversions sync raised,
\* with a conversions cursor left by an earlier run.
C27_Witness ==
    /\ ConversionsFailedInCycle
    /\ results.visits > PageLimit
    /\ sync_state.visits.records_synced = results.visits
    /\ sync_state.conversions = [present |-> TRUE, last_sync_timestamp |-> 0 - 1,
                                 records_synced |-> 0]
    /\ last_get = "ok" /\ last_upsert = "fail"

CycleFailed == outcome = "raised" \/ page_failed \/ auth_failed

\* C28: in the continuous workers a cycle is started by the test of the while
\* loop alone, the loop test is reached only from the start of the worker or
\* from the wait between cycles, and that wait only from the end of a cycle;
\* a cycle that ended, failed or not, goes on to the wait and nowhere else; a
\* request that failed ends its sync or is followed by the request for the
\* next campaign, never by the same request again.
C28_SerialCyclesNoRetry ==
    [][ /\ cycles' # cycles => (cycles' = cycles + 1 /\ pc = "w_head" /\ pc' = "w_cycle")
        /\ (pc' = "w_cycle" /\ pc # "w_cycle") => pc = "w_head"
        /\ (pc' = "w_head" /\ pc # "w_head") => pc = "w_wait"
        /\ (pc' = "w_wait" /\ pc # "w_wait") => pc = "done"
        /\ pc = "done" => pc' \in {"done", "w_wait"}
        /\ (pc = "done" /\ CycleFailed /\ pc' # pc) =>
              (pc' = "w_wait" /\ cycles' = cycles /\ requested' = requested
                 /\ pages_requested' = pages_requested /\ exchanges' = exchanges)
        /\ (last_get' = "fail" /\ pages_requested' = pages_requested + 1) =>
              pc' \in {"conv_return", "done"}
        /\ (last_get' = "fail" /\ requested' # requested) =>
              (pc' = "sync_loop" /\ i' = i + 1) ]_vars

\* A second cycle has been admitted after a first one that raised.
C28_Witness ==
    /\ cycles = 2
    /\ pc = "w_cycle"
    /\ outcome = "raised"
    /\ page_failed
    /\ ~shutdown

WrittenIds == {k \in Keys : store'[table_of(entity)][k] # store[table_of(entity)][k]}

\* C29: within one sync_live_visits / sync_live_clicks call the set of seen
\* click ids only grows from campaign to campaign; the batch upserted for a
\* campaign writes click ids first seen under that campaign alone, as many as
\* it counts; when the upsert fails nothing is written and the ids stay seen,
\* so the rows the call has written are of seen ids only, an id seen under an
\* earlier campaign is never written under a later one.
C29_SeenSpansCampaigns ==
    /\ [][ (pc = "sync_loop" /\ pc' = "sync_loop") =>
              /\ seen_click_ids \subseteq seen_click_ids'
              /\ WrittenIds \subseteq seen_click_ids' \ seen_click_ids
              /\ last_upsert' = "ok" =>
                    /\ WrittenIds = seen_click_ids' \ seen_click_ids
                    /\ total_synced' = total_synced + Cardinality(WrittenIds)
              /\ last_upsert' # "ok" =>
                    (store' = store /\ total_synced' = total_synced) ]_vars
    /\ [](entry = "sync_live" =>
              /\ \A k \in Keys : store[table_of(entity)][k] # 0 => k \in seen_click_ids
              /\ total_synced = Cardinality({k \in Keys : store[table_of(entity)][k] # 0}))

\* The upsert for the first campaign failed; the second campaign's report
\* was fetched, nothing of it was upserted, and the click id seen under the
\* first campaign is in no row the call has written.
C29_Witness ==
    /\ entry = "sync_live"
    /\ pc = "done"
    /\ requested = <<1, 2>>
    /\ seen_click_ids = {1}
    /\ store[table_of(entity)][1] = 0
    /\ last_get = "ok"
    /\ last_upsert = "none"
    /\ total_synced = 0
    /\ ~auth_failed

====
